---- MODULE Spec2Model ----
(***************************************************************************)
(* Unified shipping platform: the shipping-provider layer.                 *)
(*                                                                         *)
(*   - the /rates handler of the API router (fan-out over the configured   *)
(*     adapters, merge, sort);                                             *)
(*   - the EasyPost adapter's createLabel (rate selection, lazy End        *)
(*     Shipper identity, purchase through the SDK with REST fallback);     *)
(*   - the Easyship and n8n adapters' getRates / createLabel, with the     *)
(*     Easyship request validation and incoterm resolution;                *)
(*   - retryWithBackoff and calculateDimensionalWeight of the base         *)
(*     adapter, the shipper-defaults decorator, createProvidersFromEnv,    *)
(*     and the /book, /track and DELETE handlers of the router.            *)
(*                                                                         *)
(* Strings that the code converts (toLowerCase, parseFloat, includes) are  *)
(* converted by tables over the finite alphabets used here.  Money is in   *)
(* cents.  A missing (undefined) string is the value Undef; a missing      *)
(* record is the empty sequence and a present one a sequence of length 1.  *)
(***************************************************************************)
EXTENDS Integers, Sequences, FiniteSets, TLC

VARIABLES
  providers,          \* keys of the Map returned by createProvidersFromEnv()
  validation,         \* shippingEnv.validation: [mode, autofix]
  rqPhase,            \* /rates handler: "idle", "fanout", "responded" (after the
                      \* fan-out) or "refused" (ended before it)
  providersToQuery,   \* /rates handler: the adapters queried, in call order
  pending,            \* /rates handler: getRates promises not yet settled
  allRates,           \* /rates handler: local allRates
  errors,             \* /rates handler: local errors
  settled,            \* history: outcome of each settled getRates, in settle order
  response,           \* /rates handler: what res.json / res.status(..).json sent
  config,             \* EasyPostProvider.config (requireEndShipper, endShipperId, SDK)
  endShipperCache,    \* EasyPostProvider.endShipperCache
  remoteEndShippers,  \* End Shipper identities the remote service has created
  slots,              \* createLabel calls that may be in flight together
  calls,              \* per slot: the createLabel call occupying it
  started,            \* number of createLabel calls started on the instance
  overlapped,         \* history: two createLabel calls were in flight together
  adapterCall,        \* last Easyship / n8n / EasyPost one-shot adapter call
  easyshipConfig,     \* EasyshipProvider: incotermDefault and ddpRestricted
  retry,              \* BaseShippingProvider.retryWithBackoff: one call
  decorated,          \* ShipperDefaultsDecorator: last getRates / createLabel
  factory,            \* createProvidersFromEnv: environment and returned Map
  route,              \* /book, /track, DELETE handlers: last request handled
  dimCalc,            \* calculateDimensionalWeight: last call
  hsCheck,            \* validateCustomsInfo on one item's HS code: last call
  tracked,            \* trackShipment of one adapter: last call
  addrCheck,          \* validateAddress of one adapter: last call
  envUnits,           \* shippingEnv.easyship weightUnit / dimensionUnit: last read
  preflight,          \* /rates and /book handlers: last address preflight
  shipFrom,           \* rows of the ship_from_addresses table
  repoOps,            \* ShipFromAddressRepository calls in flight
  agent               \* agent manager: the job being processed

vars == << providers, validation, rqPhase, providersToQuery, pending, allRates,
           errors, settled, response, config, endShipperCache,
           remoteEndShippers, slots, calls, started, overlapped, adapterCall,
           easyshipConfig, retry, decorated, factory, route, dimCalc, hsCheck,
           tracked, addrCheck, envUnits, preflight, shipFrom, repoOps, agent >>

ratesVars == << rqPhase, providersToQuery, pending, allRates, errors, settled,
                response >>
envVars == << providers, validation >>
easypostVars == << config, endShipperCache, remoteEndShippers, slots, calls,
                   started, overlapped >>
utilityVars == << easyshipConfig, retry, decorated, factory, route, dimCalc, hsCheck >>
laterVars == << tracked, addrCheck, envUnits, shipFrom, repoOps, agent >>

-----------------------------------------------------------------------------
(* Bounds *)

MaxRatesPerProvider == 2
MaxShipmentRates == 2
MaxCalls == 3
MaxHsLen == 11
MaxMixedLen == 4
MaxRetriesBudget == 4
MaxEvents == 2
MaxAddresses == 3

-----------------------------------------------------------------------------
(* Generic helpers *)

Undef == "undefined"

\* JS truthiness of an optional string
Truthy(s) == s # Undef /\ s # ""

RECURSIVE SeqsUpTo(_, _)
SeqsUpTo(S, n) ==
  IF n = 0 THEN { << >> }
  ELSE LET shorter == SeqsUpTo(S, n - 1)
       IN  shorter \cup { Append(s, x) : s \in { t \in shorter : Len(t) = n - 1 }, x \in S }

RECURSIVE Count(_, _)
Count(x, s) ==
  IF s = << >> THEN 0
  ELSE (IF Head(s) = x THEN 1 ELSE 0) + Count(x, Tail(s))

Range(s) == { s[i] : i \in 1..Len(s) }

\* String.prototype.toLowerCase over the carrier / service / provider names used
toLowerCase(s) ==
  CASE s = "USPS" -> "usps"
    [] s = "UPS" -> "ups"
    [] s = "Priority" -> "priority"
    [] s = "PRIORITY" -> "priority"
    [] s = "Ground" -> "ground"
    [] s = "Asendia" -> "asendia"
    [] s = "USAExportPBA" -> "usaexportpba"
    [] s = "EasyPost" -> "easypost"
    [] s = "Easyship" -> "easyship"
    [] s = "FedEx" -> "fedex"
    [] s = "PBA" -> "pba"
    [] s = "IN_TRANSIT" -> "in_transit"
    [] s = "Delivered" -> "delivered"
    [] s = "InfoReceived" -> "inforeceived"
    [] s = "InTransit" -> "intransit"
    [] s = "OutForDelivery" -> "outfordelivery"
    [] s = "AvailableForPickup" -> "availableforpickup"
    [] s = "FailedAttempt" -> "failedattempt"
    [] s = "Exception" -> "exception"
    [] s = "Shippo" -> "shippo"
    [] s = "N8N" -> "n8n"
    [] OTHER -> s

\* parseFloat over the decimal strings the providers return, in cents
parseFloat(s) ==
  CASE s = "10.00" -> 1000
    [] s = "5.00" -> 500
    [] s = "7.50" -> 750
    [] s = "3" -> 300
    [] s = "10" -> 1000
    [] OTHER -> 0

-----------------------------------------------------------------------------
(* Provider map *)

ProviderKeys == { "easypost", "easyship", "n8n" }

\* insertion order of createProvidersFromEnv
ProviderOrder == << "easypost", "easyship", "n8n" >>

\* Array.from(providers.values()), as keys
ProviderValues(ps) == SelectSeq(ProviderOrder, LAMBDA k : k \in ps)

\* readonly name of each adapter (the decorator proxies it)
ProviderName(k) ==
  CASE k = "easypost" -> "EasyPost"
    [] k = "easyship" -> "Easyship"
    [] OTHER -> "n8n"

-----------------------------------------------------------------------------
(* Raw provider rates and their normalisation *)

EasyPostRates ==
  { [id |-> "rate_1", carrier |-> "USPS", service |-> "Priority", rate |-> "10.00"],
    [id |-> "rate_2", carrier |-> "UPS", service |-> "Ground", rate |-> "5.00"],
    [id |-> "rate_3", carrier |-> "Asendia", service |-> "USAExportPBA", rate |-> "7.50"] }

EasyshipRates ==
  { [courier_id |-> "c_1", courier_name |-> "DHL", service_level |-> "Express",
     total_charge |-> 750],
    [courier_id |-> "c_2", courier_name |-> "SF", service_level |-> "Economy",
     total_charge |-> 500] }

N8nRates ==
  { [id |-> "n_1", aggregator |-> "EasyPost", carrier |-> "USPS",
     service |-> "Priority", price |-> "3"],
    [id |-> "n_2", aggregator |-> Undef, carrier |-> "UPS",
     service |-> "Ground", price |-> "10"] }

EasyPostNormalizeRate(rate) ==
  [ id |-> rate.id, provider |-> "EasyPost", carrier |-> rate.carrier,
    service |-> rate.service, cost |-> parseFloat(rate.rate) ]

EasyshipNormalizeRate(rate) ==
  [ id |-> rate.courier_id, provider |-> "Easyship", carrier |-> rate.courier_name,
    service |-> rate.service_level, cost |-> rate.total_charge ]

N8nNormalizeRate(rate) ==
  [ id |-> rate.id,
    provider |-> IF Truthy(rate.aggregator) THEN rate.aggregator ELSE "n8n",
    carrier |-> rate.carrier, service |-> rate.service,
    cost |-> parseFloat(rate.price) ]

\* what a resolved provider.getRates(request) can yield for adapter k
GetRatesResults(k) ==
  CASE k = "easypost" ->
         { [ i \in 1..Len(s) |-> EasyPostNormalizeRate(s[i]) ] :
             s \in SeqsUpTo({ r \in EasyPostRates : r.id # "rate_3" }, MaxRatesPerProvider) }
    [] k = "easyship" ->
         { [ i \in 1..Len(s) |-> EasyshipNormalizeRate(s[i]) ] : s \in SeqsUpTo(EasyshipRates, MaxRatesPerProvider) }
    [] OTHER ->
         { [ i \in 1..Len(s) |-> N8nNormalizeRate(s[i]) ] : s \in SeqsUpTo(N8nRates, MaxRatesPerProvider) }

\* err.message of a rejected provider.getRates(request)
GetRatesError(k) ==
  CASE k = "easypost" -> "EasyPost API error"
    [] k = "easyship" -> "Easyship API error"
    [] OTHER -> "n8n webhook error"

-----------------------------------------------------------------------------
(* /rates handler *)

\* Array.prototype.sort((a, b) => a.cost - b.cost): stable, ascending
RECURSIVE InsertByCost(_, _)
InsertByCost(r, s) ==
  IF s = << >> THEN << r >>
  ELSE IF Head(s).cost <= r.cost THEN << Head(s) >> \o InsertByCost(r, Tail(s))
       ELSE << r >> \o s

RECURSIVE SortByCost(_)
SortByCost(s) ==
  IF s = << >> THEN << >>
  ELSE InsertByCost(s[Len(s)], SortByCost(SubSeq(s, 1, Len(s) - 1)))

\* provider.validateAddress(address) of the adapter stored under key k, as the
\* handler sees it: threw, or { valid, errors, suggested }
ValidateAddressResults(k) ==
  IF k = "easypost"
  THEN { [threw |-> TRUE, valid |-> FALSE, nerrors |-> 0, suggested |-> FALSE] }
       \cup { [threw |-> FALSE, valid |-> (n = 0), nerrors |-> n, suggested |-> s] :
                n \in 0..1, s \in BOOLEAN }
  ELSE { [threw |-> FALSE, valid |-> TRUE, nerrors |-> 0, suggested |-> FALSE] }

\* where request.origin comes from
OriginInputs == { "given", "byId", "byIdMissing", "default", "none" }

NoResponse == [ status |-> 0, success |-> FALSE, code |-> "", rates |-> << >>,
                errors |-> << >> ]

ErrorResponse(status, code) ==
  [ status |-> status, success |-> FALSE, code |-> code, rates |-> << >>,
    errors |-> << >> ]

NoPreflight ==
  [ handler |-> "none", destination |-> FALSE, ran |-> FALSE, ov |-> << >>,
    dv |-> << >>, verdict |-> "" ]

\* the preflight adopting the suggestions as soon as one side has one
RatesPreflightAnySuggestion(ov, dv) ==
  IF validation.mode = "off" \/ providers = { } THEN "pass"
  ELSE IF ov.threw \/ dv.threw THEN "throw"
  ELSE LET issues == (IF ~ov.valid THEN ov.nerrors ELSE 0)
                     + (IF ~dv.valid THEN dv.nerrors ELSE 0)
       IN  IF issues = 0 THEN "pass"
           ELSE IF validation.autofix /\ (ov.suggested \/ dv.suggested) THEN "replaced"
           ELSE "ADDRESS_INVALID"

\* the address-validation preflight: "pass", "replaced" (both addresses replaced by
\* the suggested ones), "ADDRESS_INVALID" or "throw"
RatesPreflight(ov, dv) ==
  IF validation.mode = "off" \/ providers = { } THEN "pass"
  ELSE IF ov.threw \/ dv.threw THEN "throw"
  ELSE LET issues == (IF ~ov.valid THEN ov.nerrors ELSE 0)
                     + (IF ~dv.valid THEN dv.nerrors ELSE 0)
       IN  IF issues = 0 THEN "pass"
           ELSE IF validation.autofix /\ ov.suggested /\ dv.suggested THEN "replaced"
           ELSE "ADDRESS_INVALID"

\* what a handler's preflight did: whether validateAddress was awaited for origin
\* and destination, what it returned and the verdict
Preflight(handler, destinationGiven, ran, ov, dv) ==
  [ handler |-> handler, destination |-> destinationGiven, ran |-> ran,
    ov |-> IF ran THEN << ov >> ELSE << >>, dv |-> IF ran THEN << dv >> ELSE << >>,
    verdict |-> IF ran THEN RatesPreflight(ov, dv) ELSE "pass" ]

ValidationProvider ==
  IF "easypost" \in providers THEN "easypost" ELSE Head(ProviderValues(providers))

\* providersToQuery of the handler
ProvidersToQuery(preferredProvider) ==
  IF Truthy(preferredProvider)
  THEN (IF preferredProvider \in providers THEN << preferredProvider >> ELSE << >>)
  ELSE ProviderValues(providers)

\* router.post('/rates'): everything up to the Promise.all over the adapters
RatesRequest ==
  /\ rqPhase = "idle"
  /\ \E preferredProvider \in ProviderKeys \cup { Undef, "fedex" },
        originIn \in OriginInputs, destinationGiven \in BOOLEAN :
       \E ov \in (IF providers = { } THEN ValidateAddressResults("n8n")
                  ELSE ValidateAddressResults(ValidationProvider)),
          dv \in (IF providers = { } THEN ValidateAddressResults("n8n")
                  ELSE ValidateAddressResults(ValidationProvider)) :
         LET ran == /\ originIn \notin { "byIdMissing", "none" }
                    /\ validation.mode # "off"
                    /\ providers # { }
                    /\ destinationGiven
             done == Preflight("rates", destinationGiven, ran, ov, dv)
         IN  /\ preflight' = done
             /\ IF originIn = "byIdMissing"
                THEN /\ rqPhase' = "refused"
                     /\ response' = ErrorResponse(404, "SHIP_FROM_NOT_FOUND")
                     /\ UNCHANGED << providersToQuery, pending >>
                ELSE IF originIn = "none"
                THEN /\ rqPhase' = "refused"
                     /\ response' = ErrorResponse(400, "ORIGIN_REQUIRED")
                     /\ UNCHANGED << providersToQuery, pending >>
                ELSE IF done.verdict = "ADDRESS_INVALID"
                THEN /\ rqPhase' = "refused"
                     /\ response' = ErrorResponse(400, "ADDRESS_INVALID")
                     /\ UNCHANGED << providersToQuery, pending >>
                ELSE IF done.verdict = "throw"
                THEN /\ rqPhase' = "refused"
                     /\ response' = ErrorResponse(500, "RATES_ERROR")
                     /\ UNCHANGED << providersToQuery, pending >>
                ELSE /\ rqPhase' = "fanout"
                     /\ providersToQuery' = ProvidersToQuery(preferredProvider)
                     /\ pending' = Range(ProvidersToQuery(preferredProvider))
                     /\ UNCHANGED response
  /\ allRates' = << >>
  /\ errors' = << >>
  /\ settled' = << >>
  /\ UNCHANGED << envVars, easypostVars, adapterCall, utilityVars, laterVars >>

\* the catch block of one adapter's callback
OnRejectSwallow(errs, k) == errs
OnReject(errs, k) ==
  Append(errs, [ provider |-> ProviderName(k), error |-> GetRatesError(k) ])

\* const rates = await provider.getRates(request); allRates.push(...rates)
GetRatesResolves(k) ==
  /\ rqPhase = "fanout"
  /\ k \in pending
  /\ \E rates \in GetRatesResults(k) :
       /\ allRates' = allRates \o rates
       /\ settled' = Append(settled, [ key |-> k, ok |-> TRUE, rates |-> rates ])
  /\ pending' = pending \ { k }
  /\ UNCHANGED << rqPhase, providersToQuery, errors, response, envVars,
                  easypostVars, adapterCall, utilityVars, laterVars, preflight >>

\* provider.getRates(request) rejected: errors.push({ provider, error })
GetRatesRejects(k) ==
  /\ rqPhase = "fanout"
  /\ k \in pending
  /\ errors' = OnReject(errors, k)
  /\ settled' = Append(settled, [ key |-> k, ok |-> FALSE, rates |-> << >> ])
  /\ pending' = pending \ { k }
  /\ UNCHANGED << rqPhase, providersToQuery, allRates, response, envVars,
                  easypostVars, adapterCall, utilityVars, laterVars, preflight >>

\* await Promise.all(...): every callback has returned
AllSettledRace == pending # Range(providersToQuery) \/ pending = { }
AllSettled == pending = { }

\* res.json({ success: true, data: { rates: allRates.sort(...), errors } })
RatesRespond ==
  /\ rqPhase = "fanout"
  /\ AllSettled
  /\ rqPhase' = "responded"
  /\ response' = [ status |-> 200, success |-> TRUE, code |-> "",
                   rates |-> SortByCost(allRates), errors |-> errors ]
  /\ UNCHANGED << providersToQuery, pending, allRates, errors, settled, envVars,
                  easypostVars, adapterCall, utilityVars, laterVars, preflight >>

\* the handler is ready for the next request
RatesNext ==
  /\ rqPhase \in { "responded", "refused" }
  /\ rqPhase' = "idle"
  /\ response' = NoResponse
  /\ providersToQuery' = << >>
  /\ pending' = { }
  /\ allRates' = << >>
  /\ errors' = << >>
  /\ settled' = << >>
  /\ preflight' = NoPreflight
  /\ UNCHANGED << envVars, easypostVars, adapterCall, utilityVars, laterVars >>

-----------------------------------------------------------------------------
(* Requests *)

\* Address values used by the requests (street2 and state are never inspected)
AddrUS ==
  [ name |-> "Ann", company |-> Undef, street1 |-> "1 Main St", city |-> "New York",
    zip |-> "10001", country |-> "US", phone |-> Undef, email |-> Undef ]

AddrCompanyOnly == [ AddrUS EXCEPT !.name = "", !.company = "Acme" ]

AddrAnonymous == [ AddrUS EXCEPT !.name = "" ]

\* a Rate the caller obtained earlier and sends back as request.rate
SuppliedRates ==
  { EasyPostNormalizeRate(CHOOSE r \in EasyPostRates : r.id = "rate_1"),
    EasyPostNormalizeRate(CHOOSE r \in EasyPostRates : r.id = "rate_3"),
    [ EasyPostNormalizeRate(CHOOSE r \in EasyPostRates : r.id = "rate_2")
        EXCEPT !.id = Undef ],
    [ EasyPostNormalizeRate(CHOOSE r \in EasyPostRates : r.id = "rate_2")
        EXCEPT !.carrier = "PBA" ] }

\* (carrier, service) selectors of a LabelRequest
Selectors ==
  { << Undef, Undef >>, << "usps", "PRIORITY" >>, << "UPS", "Ground" >>,
    << "USPS", Undef >>, << "FedEx", "Ground" >> }

LabelRequests ==
  { [ origin |-> o, rate |-> rt, carrier |-> sel[1], service |-> sel[2] ] :
      o \in { AddrUS, AddrCompanyOnly, AddrAnonymous },
      rt \in { << >> } \cup { << r >> : r \in SuppliedRates },
      sel \in Selectors }

\* sequences without repetition
DistinctSeqs(S, n) ==
  { q \in SeqsUpTo(S, n) : \A i, j \in 1..Len(q) : i # j => q[i] # q[j] }

\* requests and shipment rate lists of the two-calls-in-flight scenario
OverlapRequests ==
  { r \in LabelRequests :
      /\ r.carrier = Undef /\ r.service = Undef
      /\ r.origin \in { AddrUS, AddrAnonymous }
      /\ \A i \in 1..Len(r.rate) : r.rate[i].id = "rate_3" }

Requests == IF slots = { 1 } THEN LabelRequests ELSE OverlapRequests

ShipmentRateLists ==
  IF slots = { 1 } THEN DistinctSeqs(EasyPostRates, MaxShipmentRates)
  ELSE { q \in DistinctSeqs(EasyPostRates, 1) : \A i \in 1..Len(q) : q[i].id # "rate_2" }

-----------------------------------------------------------------------------
(* EasyPost adapter: createLabel *)

\* String.prototype.includes for the two patterns of requiresEndShipper
includes(s, pattern) ==
  CASE pattern = "usaexport" -> s \in { "usaexportpba", "usaexport" }
    [] pattern = "pba" -> s \in { "usaexportpba", "pba" }
    [] OTHER -> FALSE

\* the decision taken from carrier and service alone, whatever the preference
requiresEndShipperAuto(carrier, service) ==
  includes(toLowerCase(service), "usaexport") \/ includes(toLowerCase(carrier), "pba")

requiresEndShipper(carrier, service) ==
  LET pref == toLowerCase(config.requireEndShipper)
  IN  IF pref = "true" THEN TRUE
      ELSE IF pref = "false" THEN FALSE
      ELSE includes(toLowerCase(service), "usaexport")
           \/ includes(toLowerCase(carrier), "pba")

\* rates.find(r => carrier and service equal ignoring case): index or 0
FindIndex(rates, request) ==
  LET hits == { i \in 1..Len(rates) :
                  /\ toLowerCase(rates[i].carrier) = toLowerCase(request.carrier)
                  /\ toLowerCase(rates[i].service) = toLowerCase(request.service) }
  IN  IF hits = { } THEN 0 ELSE CHOOSE i \in hits : \A j \in hits : i <= j

RECURSIVE InsertByRate(_, _)
InsertByRate(r, s) ==
  IF s = << >> THEN << r >>
  ELSE IF parseFloat(Head(s).rate) <= parseFloat(r.rate)
       THEN << Head(s) >> \o InsertByRate(r, Tail(s))
       ELSE << r >> \o s

RECURSIVE SortByRate(_)
\* rates.sort((a, b) => parseFloat(a.rate) - parseFloat(b.rate))
SortByRate(s) ==
  IF s = << >> THEN << >>
  ELSE InsertByRate(s[Len(s)], SortByRate(SubSeq(s, 1, Len(s) - 1)))

\* selectBestRate: [ error, rate ] with rate a sequence of length <= 1
selectBestRateCheapestFirst(rates, request) ==
  LET sorted == SortByRate(rates)
  IN  IF sorted = << >>
      THEN [ error |-> "No rates available", rate |-> << >> ]
      ELSE [ error |-> "", rate |-> << sorted[1] >> ]

selectBestRateUnsorted(rates, request) ==
  IF Truthy(request.carrier) /\ Truthy(request.service)
  THEN IF FindIndex(rates, request) = 0
       THEN [ error |-> "No rate found", rate |-> << >> ]
       ELSE [ error |-> "", rate |-> << rates[FindIndex(rates, request)] >> ]
  ELSE IF rates = << >>
       THEN [ error |-> "No rates available", rate |-> << >> ]
       ELSE [ error |-> "", rate |-> << rates[1] >> ]

selectBestRate(rates, request) ==
  IF Truthy(request.carrier) /\ Truthy(request.service)
  THEN IF FindIndex(rates, request) = 0
       THEN [ error |-> "No rate found", rate |-> << >> ]
       ELSE [ error |-> "", rate |-> << rates[FindIndex(rates, request)] >> ]
  ELSE LET sorted == SortByRate(rates)
       IN  IF sorted = << >>
           THEN [ error |-> "No rates available", rate |-> << >> ]
           ELSE [ error |-> "", rate |-> << sorted[1] >> ]

\* an End Shipper creation request of another call is awaiting its response
CreationInFlight == \E c \in slots : calls[c].pc \in { "esSdk", "esRest" }

\* maybeEnsureEndShipperId up to its first await: what it decides.  An id of 0
\* is the undefined id.
maybeEnsureIgnoringCache(origin, rate) ==
  IF ~requiresEndShipper(rate.carrier, rate.service) THEN [ kind |-> "none", id |-> 0 ]
  ELSE IF config.endShipperId # 0 THEN [ kind |-> "configured", id |-> config.endShipperId ]
  ELSE IF ~Truthy(origin.name) /\ ~Truthy(origin.company)
       THEN [ kind |-> "missing", id |-> 0 ]
  ELSE [ kind |-> "create", id |-> 0 ]

maybeEnsureUnguarded(origin, rate) ==
  IF ~requiresEndShipper(rate.carrier, rate.service) THEN [ kind |-> "none", id |-> 0 ]
  ELSE IF config.endShipperId # 0 THEN [ kind |-> "configured", id |-> config.endShipperId ]
  ELSE IF endShipperCache # 0 THEN [ kind |-> "cached", id |-> endShipperCache ]
  ELSE [ kind |-> "create", id |-> 0 ]

maybeEnsureSingleFlight(origin, rate) ==
  IF ~requiresEndShipper(rate.carrier, rate.service) THEN [ kind |-> "none", id |-> 0 ]
  ELSE IF config.endShipperId # 0 THEN [ kind |-> "configured", id |-> config.endShipperId ]
  ELSE IF endShipperCache # 0 THEN [ kind |-> "cached", id |-> endShipperCache ]
  ELSE IF ~Truthy(origin.name) /\ ~Truthy(origin.company)
       THEN [ kind |-> "missing", id |-> 0 ]
  ELSE IF CreationInFlight THEN [ kind |-> "none", id |-> 0 ]
  ELSE [ kind |-> "create", id |-> 0 ]

maybeEnsureEndShipperId(origin, rate) ==
  IF ~requiresEndShipper(rate.carrier, rate.service) THEN [ kind |-> "none", id |-> 0 ]
  ELSE IF config.endShipperId # 0 THEN [ kind |-> "configured", id |-> config.endShipperId ]
  ELSE IF endShipperCache # 0 THEN [ kind |-> "cached", id |-> endShipperCache ]
  ELSE IF ~Truthy(origin.name) /\ ~Truthy(origin.company)
       THEN [ kind |-> "missing", id |-> 0 ]
  ELSE [ kind |-> "create", id |-> 0 ]

IdleCall ==
  [ pc |-> "idle", request |-> CHOOSE r \in LabelRequests : TRUE, rates |-> << >>,
    selected |-> << >>, normalizedRate |-> << >>, needsEndShipper |-> FALSE,
    cacheAtStart |-> 0, endShipperId |-> 0, esRequests |-> 0, esFailed |-> FALSE,
    buys |-> << >>, result |-> "", label |-> << >> ]

Fail(call, error) == [ call EXCEPT !.pc = "done", !.result = error ]

BuyRequest(call, via) ==
  [ via |-> via,
    rateId |-> IF call.request.rate # << >> THEN call.request.rate[1].id
               ELSE call.selected[1].id,
    endShipperId |-> call.endShipperId ]

\* the REST branch of buyShipment: POST /shipments/:id/buy
RestBuy(call) ==
  [ call EXCEPT !.pc = "buyRest", !.buys = Append(call.buys, BuyRequest(call, "rest")) ]

\* createLabel after maybeEnsureEndShipperId returned id: rateIdForBuy, then
\* buyShipment up to its first await
BeginBuy(call, id) ==
  LET c1 == [ call EXCEPT !.endShipperId = id ]
  IN  IF c1.request.rate # << >> /\ c1.request.rate[1].id = Undef
      THEN Fail(c1, "TypeError")
      ELSE IF config.sdk THEN [ c1 EXCEPT !.pc = "buyRetrieve" ]
      ELSE RestBuy(c1)

\* POST /end_shippers (REST branch of maybeEnsureEndShipperId)
RestCreateEndShipper(call) ==
  [ call EXCEPT !.pc = "esRest", !.esRequests = call.esRequests + 1 ]

\* createLabel from the resolved createShipment to the next await
AfterShipment(call, rates) ==
  LET chosen == IF call.request.rate # << >> THEN [ error |-> "", rate |-> << >> ]
                ELSE selectBestRate(rates, call.request)
      c1 == [ call EXCEPT !.rates = rates, !.selected = chosen.rate ]
  IN  IF chosen.error # "" THEN Fail(c1, chosen.error)
      ELSE
        LET normalizedRate == IF call.request.rate # << >> THEN call.request.rate[1]
                              ELSE EasyPostNormalizeRate(chosen.rate[1])
            decision == maybeEnsureEndShipperId(call.request.origin, normalizedRate)
            c2 == [ c1 EXCEPT !.normalizedRate = << normalizedRate >>,
                              !.needsEndShipper =
                                 requiresEndShipper(normalizedRate.carrier,
                                                    normalizedRate.service) ]
        IN  CASE decision.kind = "missing" -> Fail(c2, "EndShipper origin missing")
              [] decision.kind = "create" ->
                   IF config.sdk
                   THEN [ c2 EXCEPT !.pc = "esSdk", !.esRequests = c2.esRequests + 1 ]
                   ELSE RestCreateEndShipper(c2)
              [] OTHER -> BeginBuy(c2, decision.id)

InFlight(c) == calls[c].pc \notin { "idle", "done" }

\* provider.createLabel(request): createShipment issues POST /shipments
CreateLabel(c) ==
  /\ c \in slots
  /\ ~InFlight(c)
  /\ started < MaxCalls
  /\ \E request \in Requests :
       calls' = [ calls EXCEPT ![c] =
                    [ IdleCall EXCEPT !.pc = "createShipment", !.request = request,
                                      !.cacheAtStart = endShipperCache ] ]
  /\ started' = started + 1
  /\ overlapped' = (overlapped \/ \E d \in slots \ { c } : InFlight(d))
  /\ UNCHANGED << config, endShipperCache, remoteEndShippers, slots, envVars,
                  ratesVars, adapterCall, utilityVars, laterVars, preflight >>

\* POST /shipments answered
ShipmentResponds(c) ==
  /\ calls[c].pc = "createShipment"
  /\ \/ calls' = [ calls EXCEPT ![c] = Fail(@, "EasyPost API error") ]
     \/ \E rates \in ShipmentRateLists :
          calls' = [ calls EXCEPT ![c] = AfterShipment(@, rates) ]
  /\ UNCHANGED << config, endShipperCache, remoteEndShippers, slots, started,
                  overlapped, envVars, ratesVars, adapterCall, utilityVars, laterVars, preflight >>

\* api.EndShipper.create(payload) settled
EndShipperSdkResponds(c) ==
  /\ calls[c].pc = "esSdk"
  /\ \/ /\ remoteEndShippers' = remoteEndShippers + 1
        /\ endShipperCache' = remoteEndShippers + 1
        /\ calls' = [ calls EXCEPT ![c] = BeginBuy(@, remoteEndShippers + 1) ]
     \/ /\ calls' = [ calls EXCEPT ![c] = RestCreateEndShipper(@) ]
        /\ UNCHANGED << endShipperCache, remoteEndShippers >>
  /\ UNCHANGED << config, slots, started, overlapped, envVars, ratesVars,
                  adapterCall, utilityVars, laterVars, preflight >>

\* POST /end_shippers answered
EndShipperRestResponds(c) ==
  /\ calls[c].pc = "esRest"
  /\ \/ /\ remoteEndShippers' = remoteEndShippers + 1
        /\ endShipperCache' = remoteEndShippers + 1
        /\ calls' = [ calls EXCEPT ![c] = BeginBuy(@, remoteEndShippers + 1) ]
     \/ /\ \E error \in { "Failed to create EasyPost EndShipper", "EasyPost API error" } :
             calls' = [ calls EXCEPT ![c] = Fail([ @ EXCEPT !.esFailed = TRUE ], error) ]
        /\ UNCHANGED << endShipperCache, remoteEndShippers >>
  /\ UNCHANGED << config, slots, started, overlapped, envVars, ratesVars,
                  adapterCall, utilityVars, laterVars, preflight >>

\* what buyShipment does when the SDK path throws
OnSdkThrow(call) == RestBuy(call)

\* api.Shipment.retrieve(shipmentId) settled; on success shipment.buy is called
ShipmentRetrieveResponds(c) ==
  /\ calls[c].pc = "buyRetrieve"
  /\ \/ calls' = [ calls EXCEPT ![c] =
                     [ @ EXCEPT !.pc = "buySdk",
                                !.buys = Append(@, BuyRequest(calls[c], "sdk")) ] ]
     \/ calls' = [ calls EXCEPT ![c] = RestBuy(@) ]
  /\ UNCHANGED << config, endShipperCache, remoteEndShippers, slots, started,
                  overlapped, envVars, ratesVars, adapterCall, utilityVars, laterVars, preflight >>

Label(call) ==
  [ provider |-> "EasyPost", rate |-> call.normalizedRate ]

Purchased(call) ==
  [ call EXCEPT !.pc = "done", !.result = "label", !.label = << Label(call) >> ]

\* shipment.buy({ rate, end_shipper_id }) settled
SdkBuyResponds(c) ==
  /\ calls[c].pc = "buySdk"
  /\ \/ calls' = [ calls EXCEPT ![c] = Purchased(@) ]
     \/ calls' = [ calls EXCEPT ![c] = OnSdkThrow(@) ]
  /\ UNCHANGED << config, endShipperCache, remoteEndShippers, slots, started,
                  overlapped, envVars, ratesVars, adapterCall, utilityVars, laterVars, preflight >>

\* POST /shipments/:id/buy answered
RestBuyResponds(c) ==
  /\ calls[c].pc = "buyRest"
  /\ \/ calls' = [ calls EXCEPT ![c] = Purchased(@) ]
     \/ calls' = [ calls EXCEPT ![c] = Fail(@, "EasyPost API error") ]
  /\ UNCHANGED << config, endShipperCache, remoteEndShippers, slots, started,
                  overlapped, envVars, ratesVars, adapterCall, utilityVars, laterVars, preflight >>

(* Values of the one-call records while no call has been made *)

NoRetry ==
  [ phase |-> "idle", maxRetries |-> 0, baseDelay |-> 0, attempt |-> 0,
    lastError |-> << >>, raised |-> << >>, waits |-> << >>, result |-> << >>,
    thrown |-> << >> ]

NoDecorated == [ op |-> "none", request |-> << >>, defaults |-> << >>, inner |-> << >> ]

NoFactory == [ env |-> << >>, map |-> << >>, raised |-> FALSE ]

NoRoute ==
  [ handler |-> "none", request |-> << >>, invoked |-> << >>, status |-> 0,
    code |-> "" ]

NoDimCalc == [ input |-> << >>, result |-> << >> ]

NoHsCheck == [ item |-> << >>, errors |-> << >> ]

\* the EasyshipConfig that createProvidersFromEnv builds from an empty environment
EasyshipIdle ==
  easyshipConfig = [ incotermDefault |-> "DDP", ddpRestricted |-> << { "MX", "BR", "AR" } >> ]

NoTracked ==
  [ adapter |-> "none", ok |-> FALSE, status |-> "", events |-> << >>, result |-> << >> ]

NoAddrCheck ==
  [ adapter |-> "none", address |-> << >>, delivery |-> << >>, requests |-> 0,
    outcome |-> "", result |-> << >> ]

NoEnvUnits ==
  [ env |-> << >>, loaded |-> FALSE, weightUnit |-> "", dimensionUnit |-> "" ]

NoAgent ==
  [ phase |-> "idle", lane |-> "", caps |-> [ security |-> << >>, override |-> << >> ],
    octokit |-> FALSE, finished |-> FALSE, testsPassed |-> FALSE, prCreated |-> FALSE,
    success |-> << >> ]

\* the ship_from_addresses table before any row is inserted
NoShipFrom == [ rows |-> { }, created |-> 0 ]

LaterIdle ==
  /\ tracked = NoTracked
  /\ addrCheck = NoAddrCheck
  /\ envUnits = NoEnvUnits
  /\ preflight = NoPreflight
  /\ shipFrom = NoShipFrom
  /\ repoOps = << >>
  /\ agent = NoAgent

UtilityIdle ==
  /\ LaterIdle
  /\ retry = NoRetry
  /\ decorated = NoDecorated
  /\ factory = NoFactory
  /\ route = NoRoute
  /\ dimCalc = NoDimCalc
  /\ hsCheck = NoHsCheck
  /\ LaterIdle

-----------------------------------------------------------------------------
\* initial values shared by the specifications

NoAdapterCall ==
  [ adapter |-> "", op |-> "", request |-> << >>, network |-> << >>, outcome |-> "",
    violations |-> << >>, rates |-> << >>, label |-> << >>, incoterms |-> Undef ]

RatesIdle ==
  /\ rqPhase = "idle"
  /\ providersToQuery = << >>
  /\ pending = { }
  /\ allRates = << >>
  /\ errors = << >>
  /\ settled = << >>
  /\ response = NoResponse

EasyPostIdle ==
  /\ config = [ requireEndShipper |-> "auto", endShipperId |-> 0, sdk |-> TRUE ]
  /\ endShipperCache = 0
  /\ remoteEndShippers = 0
  /\ slots = { 1 }
  /\ calls = [ c \in { 1, 2 } |-> IdleCall ]
  /\ started = 0
  /\ overlapped = FALSE

InitRates ==
  /\ providers \in SUBSET ProviderKeys
  /\ validation \in [ mode : { "off", "remote" }, autofix : BOOLEAN ]
  /\ RatesIdle
  /\ EasyPostIdle
  /\ adapterCall = NoAdapterCall
  /\ EasyshipIdle
  /\ UtilityIdle

NextRates ==
  \/ RatesRequest
  \/ \E k \in ProviderKeys : GetRatesResolves(k)
  \/ \E k \in ProviderKeys : GetRatesRejects(k)
  \/ RatesRespond
  \/ RatesNext

SpecRates == InitRates /\ [][NextRates]_vars


EasyPostConfigs ==
  [ requireEndShipper : { "auto", "true", "false" }, endShipperId : { 0, 9 },
    sdk : BOOLEAN ]

InitLabel ==
  /\ providers = { "easypost" }
  /\ validation = [ mode |-> "off", autofix |-> FALSE ]
  /\ RatesIdle
  /\ config \in EasyPostConfigs
  /\ endShipperCache = 0
  /\ remoteEndShippers = 0
  /\ slots = { 1 }
  /\ calls = [ c \in { 1, 2 } |-> IdleCall ]
  /\ started = 0
  /\ overlapped = FALSE
  /\ adapterCall = NoAdapterCall
  /\ EasyshipIdle
  /\ UtilityIdle

InitOverlap ==
  /\ providers = { "easypost" }
  /\ validation = [ mode |-> "off", autofix |-> FALSE ]
  /\ RatesIdle
  /\ config \in { cf \in EasyPostConfigs : cf.requireEndShipper # "false" }
  /\ endShipperCache = 0
  /\ remoteEndShippers = 0
  /\ slots = { 1, 2 }
  /\ calls = [ c \in { 1, 2 } |-> IdleCall ]
  /\ started = 0
  /\ overlapped = FALSE
  /\ adapterCall = NoAdapterCall
  /\ EasyshipIdle
  /\ UtilityIdle

NextLabel ==
  \E c \in { 1, 2 } :
    \/ CreateLabel(c)
    \/ ShipmentResponds(c)
    \/ EndShipperSdkResponds(c)
    \/ EndShipperRestResponds(c)
    \/ ShipmentRetrieveResponds(c)
    \/ SdkBuyResponds(c)
    \/ RestBuyResponds(c)

SpecLabel == InitLabel /\ [][NextLabel]_vars

SpecOverlap == InitOverlap /\ [][NextLabel]_vars

-----------------------------------------------------------------------------
(* Easyship adapter: request validation *)

\* String.prototype.trim over the strings used
trim(s) == IF s = "  " THEN "" ELSE s

\* String.prototype.toUpperCase over the country codes used
toUpperCase(s) ==
  CASE s = "us" -> "US"
    [] s = "mx" -> "MX"
    [] s = "hk" -> "HK"
    [] s = "ddu" -> "DDU"
    [] OTHER -> s

VALID_COUNTRY_CODES ==
  { "US", "CA", "GB", "DE", "FR", "IT", "ES", "NL", "BE", "AT", "CH", "SE", "NO",
    "DK", "FI", "IE", "PT", "GR", "PL", "CZ", "HU", "RO", "BG", "HR", "SK", "SI",
    "LT", "LV", "EE", "AU", "NZ", "JP", "KR", "CN", "HK", "TW", "SG", "MY", "TH",
    "VN", "PH", "ID", "IN", "MX", "BR", "AR", "CL", "CO", "PE", "ZA", "AE", "SA",
    "IL", "TR", "RU", "UA" }

countriesWithoutPostalCode == { "HK", "AE", "SA" }

\* /^[+\d\s\-().]{7,20}$/.test(phone)
PhonePattern(s) == s \in { "+1 212 555 0100", "(212) 555-0100" }

\* /^[^\s@]+@[^\s@]+\.[^\s@]+$/.test(email)
EmailPattern(s) == s \in { "ann@example.com" }

\* A string whose characters the code inspects is a sequence of one-character
\* strings.
Digits == { "0", "1", "2", "3", "4", "5", "6", "7", "8", "9" }

Whitespace == { " " }

\* String.prototype.trim on a sequence of characters
trimChars(s) ==
  LET kept == { i \in 1..Len(s) : s[i] \notin Whitespace }
  IN  IF kept = { } THEN << >>
      ELSE SubSeq(s, CHOOSE i \in kept : \A j \in kept : i <= j,
                     CHOOSE i \in kept : \A j \in kept : i >= j)

IsNotDot(c) == c # "."

RemoveDotsNone(s) == s

\* hsCode.replace(/\./g, '')
RemoveDots(s) == SelectSeq(s, IsNotDot)

AllDigits(s) == \A i \in 1..Len(s) : s[i] \in Digits

HS_MIN_DIGITS == 4
HS_MAX_DIGITS == 10

\* /^\d{4,10}(\.\d+)?$/.test(s)
HsPattern(s) ==
  \E n \in HS_MIN_DIGITS..HS_MAX_DIGITS :
    /\ n <= Len(s)
    /\ AllDigits(SubSeq(s, 1, n))
    /\ \/ Len(s) = n
       \/ /\ Len(s) >= n + 2
          /\ s[n + 1] = "."
          /\ AllDigits(SubSeq(s, n + 2, Len(s)))

MAX_WEIGHT == 150
MAX_LENGTH == 108
MAX_WIDTH == 108
MAX_HEIGHT == 108
MAX_DESCRIPTION == 256

\* one violated rule: the field it is about (index 0 when not a customs item)
Violation(field, index, rule) == [ field |-> field, index |-> index, rule |-> rule ]

Missing(s) == s = Undef \/ trim(s) = ""

validateAddressFields(addr, prefix) ==
  (IF Missing(addr.name) THEN << Violation(prefix, 0, "name is required") >> ELSE << >>)
  \o (IF Missing(addr.street1)
      THEN << Violation(prefix, 0, "street1 is required") >> ELSE << >>)
  \o (IF Missing(addr.city) THEN << Violation(prefix, 0, "city is required") >> ELSE << >>)
  \o (IF Missing(addr.country)
      THEN << Violation(prefix, 0, "country is required") >>
      ELSE IF toUpperCase(addr.country) \notin VALID_COUNTRY_CODES
           THEN << Violation(prefix, 0, "country is not a valid code") >>
           ELSE << >>)
  \o (IF Missing(addr.zip) /\ toUpperCase(addr.country) \notin countriesWithoutPostalCode
      THEN << Violation(prefix, 0, "zip is required") >> ELSE << >>)
  \o (IF Truthy(addr.phone) /\ ~PhonePattern(addr.phone)
      THEN << Violation(prefix, 0, "phone format is invalid") >> ELSE << >>)
  \o (IF Truthy(addr.email) /\ ~EmailPattern(addr.email)
      THEN << Violation(prefix, 0, "email format is invalid") >> ELSE << >>)

\* one dimension of validateParcel; a missing number is 0
validateDimension(value, limit, field) ==
  IF value <= 0 THEN << Violation(field, 0, "must be greater than 0") >>
  ELSE IF value > limit THEN << Violation(field, 0, "exceeds maximum") >>
  ELSE << >>

validateParcel(parcel) ==
  validateDimension(parcel.weight, MAX_WEIGHT, "parcel.weight")
  \o validateDimension(parcel.length, MAX_LENGTH, "parcel.length")
  \o validateDimension(parcel.width, MAX_WIDTH, "parcel.width")
  \o validateDimension(parcel.height, MAX_HEIGHT, "parcel.height")

\* the checks of one customs item; quantity 0 and value -1 stand for missing, and
\* hsCode is << >> when undefined and << characters >> otherwise
validateCustomsItem(item, i) ==
  (IF Missing(item.description)
   THEN << Violation("customs.items.description", i, "is required") >>
   ELSE IF item.descriptionLength > MAX_DESCRIPTION
        THEN << Violation("customs.items.description", i, "exceeds 256 characters") >>
        ELSE << >>)
  \o (IF item.quantity <= 0
      THEN << Violation("customs.items.quantity", i, "must be greater than 0") >>
      ELSE << >>)
  \o (IF item.value < 0
      THEN << Violation("customs.items.value", i, "must be 0 or greater") >>
      ELSE << >>)
  \o (IF item.hsCode = << >> \/ trimChars(item.hsCode[1]) = << >>
      THEN << Violation("customs.items.hsCode", i, "is required") >>
      ELSE IF ~HsPattern(RemoveDots(item.hsCode[1]))
           THEN << Violation("customs.items.hsCode", i, "format is invalid") >>
           ELSE << >>)
  \o (IF Missing(item.originCountry)
      THEN << Violation("customs.items.originCountry", i, "is required") >>
      ELSE << >>)

RECURSIVE validateCustomsItems(_, _)
validateCustomsItems(items, i) ==
  IF i > Len(items) THEN << >>
  ELSE validateCustomsItem(items[i], i - 1) \o validateCustomsItems(items, i + 1)

validateCustomsInfo(customs, destCountry) ==
  IF customs.items = << >>
  THEN << Violation("customs.items", 0, "is required for international shipments") >>
  ELSE validateCustomsItems(customs.items, 1)

validateRequestFirstOnly(request) ==
  LET first == validateAddressFields(request.origin, "origin")
               \o validateAddressFields(request.destination, "destination")
               \o validateParcel(request.parcel)
  IN  IF first = << >> THEN << >> ELSE << Head(first) >>

\* validateRequest: the violations it collects; it throws when there is any
validateRequest(request) ==
  validateAddressFields(request.origin, "origin")
  \o validateAddressFields(request.destination, "destination")
  \o validateParcel(request.parcel)
  \o (IF request.origin.country # request.destination.country /\ request.customs # << >>
      THEN validateCustomsInfo(request.customs[1], request.destination.country)
      ELSE << >>)

-----------------------------------------------------------------------------
(* Easyship customs validation applied to one item's HS code *)

\* every specification of a single operation starts with nothing in flight
InitIdle ==
  /\ providers = ProviderKeys
  /\ validation = [ mode |-> "off", autofix |-> FALSE ]
  /\ RatesIdle
  /\ EasyPostIdle
  /\ adapterCall = NoAdapterCall
  /\ EasyshipIdle
  /\ UtilityIdle

Chars610910 == << "6", "1", "0", "9", "1", "0" >>
Chars6109dot10 == << "6", "1", "0", "9", ".", "1", "0" >>
Chars12 == << "1", "2" >>
CharsAbcde == << "a", "b", "c", "d", "e" >>

HsExamples == { Chars610910, Chars6109dot10, Chars12, CharsAbcde, << >> }

\* HS codes tried: dotted digit strings long enough to pass the upper limit, and
\* short strings that also hold a letter or a blank
HsCodes ==
  SeqsUpTo({ "6", "." }, MaxHsLen) \cup SeqsUpTo({ "6", ".", "a", " " }, MaxMixedLen)
    \cup HsExamples

ItemOk ==
  [ description |-> "T-shirt", descriptionLength |-> 7, quantity |-> 2, value |-> 20,
    hsCode |-> << Chars6109dot10 >>, originCountry |-> "US" ]

hsUnchanged ==
  << envVars, ratesVars, easypostVars, adapterCall, easyshipConfig, retry, decorated,
     factory, route, dimCalc,
     laterVars, preflight >>

\* validateCustomsInfo on a customs declaration of one item
ValidateHsCode ==
  /\ hsCheck = NoHsCheck
  /\ \E hsCode \in { << >> } \cup { << code >> : code \in HsCodes } :
       LET item == [ ItemOk EXCEPT !.hsCode = hsCode ]
       IN  hsCheck' = [ item |-> << item >>,
                        errors |-> validateCustomsInfo([ items |-> << item >> ], "MX") ]
  /\ UNCHANGED hsUnchanged

\* the errors were returned to validateRequest
HsCheckReturns ==
  /\ hsCheck # NoHsCheck
  /\ hsCheck' = NoHsCheck
  /\ UNCHANGED hsUnchanged

NextHs == ValidateHsCode \/ HsCheckReturns

SpecHs == InitIdle /\ [][NextHs]_vars

-----------------------------------------------------------------------------
(* Easyship, n8n and EasyPost adapters: one call at a time *)

AddrMX ==
  [ AddrUS EXCEPT !.name = "Luz", !.street1 = "Av. Juarez 1", !.city = "Puebla",
                  !.zip = "72000", !.country = "MX" ]

AddrHK ==
  [ AddrUS EXCEPT !.name = "Wai", !.city = "Hong Kong", !.zip = "", !.country = "hk",
                  !.phone = "+1 212 555 0100", !.email = "ann@example.com" ]

AddrBad ==
  [ AddrUS EXCEPT !.name = "  ", !.zip = Undef, !.country = "XX", !.phone = "12",
                  !.email = "nope" ]

ParcelOk == [ length |-> 10, width |-> 10, height |-> 10, weight |-> 5 ]

Parcels ==
  { ParcelOk, [ ParcelOk EXCEPT !.weight = 0 ],
    [ ParcelOk EXCEPT !.weight = MAX_WEIGHT + 1, !.length = MAX_LENGTH + 1 ] }

CustomsItems ==
  { ItemOk, [ ItemOk EXCEPT !.hsCode = << Chars12 >> ],
    [ ItemOk EXCEPT !.hsCode = << >> ] }

CustomsInputs ==
  { << >> } \cup { << [ items |-> items ] >> : items \in SeqsUpTo(CustomsItems, 1) }

AdapterRates ==
  { << >>,
    << EasyshipNormalizeRate(CHOOSE r \in EasyshipRates : r.courier_id = "c_1") >> }

AdapterRequests ==
  [ origin : { AddrUS, AddrAnonymous }, destination : { AddrUS, AddrMX, AddrHK, AddrBad },
    parcel : Parcels, customs : CustomsInputs, rate : AdapterRates ]

NoLabel == << >>

DEFAULT_DDP_RESTRICTED == { "MX", "BR", "AR", "RU", "IN", "ID", "EG", "NG" }

\* EasyshipConfig.incotermDefault and .ddpRestricted (<< >> when not given)
EasyshipConfigs ==
  [ incotermDefault : { Undef, "DDP", "DDU" },
    ddpRestricted : { << >>, << { } >>, << { "hk" } >>, << { "MX", "BR", "AR" } >> } ]

\* new EasyshipProvider(config): the two fields incoterm resolution reads
EasyshipProvider(cfg) ==
  [ incotermDefault |-> cfg.incotermDefault,
    ddpRestricted |-> IF cfg.ddpRestricted = << >> THEN << >>
                      ELSE << { toUpperCase(c) : c \in cfg.ddpRestricted[1] } >> ]

determineIncotermDefaultOnly(destinationCountry) ==
  IF Truthy(easyshipConfig.incotermDefault) THEN easyshipConfig.incotermDefault ELSE "DDP"

determineIncoterm(destinationCountry) ==
  LET country == toUpperCase(IF Truthy(destinationCountry) THEN destinationCountry ELSE "")
      ddpRestricted == IF easyshipConfig.ddpRestricted # << >>
                       THEN easyshipConfig.ddpRestricted[1]
                       ELSE DEFAULT_DDP_RESTRICTED
      defaultIncoterm == IF Truthy(easyshipConfig.incotermDefault)
                         THEN easyshipConfig.incotermDefault ELSE "DDP"
  IN  IF country \in ddpRestricted THEN "DDU" ELSE defaultIncoterm

\* one adapter call, start to end; incoterms is the value EasyshipProvider put in
\* the body of the first request it sent
Finished(adapter, op, request, network, outcome, violations, rates, label) ==
  adapterCall' = [ adapter |-> adapter, op |-> op, request |-> << request >>,
                   network |-> network, outcome |-> outcome,
                   violations |-> violations, rates |-> rates, label |-> label,
                   incoterms |-> IF adapter = "easyship" /\ network # << >>
                                 THEN determineIncoterm(request.destination.country)
                                 ELSE Undef ]

adapterUnchanged == << envVars, ratesVars, easypostVars, utilityVars, laterVars, preflight >>

\* EasyshipProvider.getRates
EasyshipGetRates ==
  /\ adapterCall = NoAdapterCall
  /\ \E request \in AdapterRequests :
       IF validateRequest(request) # << >>
       THEN Finished("easyship", "getRates", request, << >>, "EasyshipValidationError",
                     validateRequest(request), << >>, NoLabel)
       ELSE \/ Finished("easyship", "getRates", request, << "POST /rates" >>,
                        "Easyship API error", << >>, << >>, NoLabel)
            \/ \E rates \in GetRatesResults("easyship") :
                 Finished("easyship", "getRates", request, << "POST /rates" >>, "ok",
                          << >>, rates, NoLabel)
  /\ UNCHANGED adapterUnchanged

\* the Label built by EasyshipProvider.createLabel and N8nProvider.createLabel:
\* rate: request.rate!
AdapterLabel(name, request) ==
  << [ provider |-> name, rate |-> request.rate,
       purchased |-> IF request.rate = << >> THEN Undef ELSE request.rate[1].id ] >>

\* EasyshipProvider.createLabel
EasyshipCreateLabel ==
  /\ adapterCall = NoAdapterCall
  /\ \E request \in AdapterRequests :
       \/ Finished("easyship", "createLabel", request, << "POST /shipments" >>,
                   "Easyship API error", << >>, << >>, NoLabel)
       \/ Finished("easyship", "createLabel", request,
                   << "POST /shipments", "POST /labels" >>,
                   "Easyship API error", << >>, << >>, NoLabel)
       \/ Finished("easyship", "createLabel", request,
                   << "POST /shipments", "POST /labels" >>,
                   "ok", << >>, << >>, AdapterLabel("Easyship", request))
  /\ UNCHANGED adapterUnchanged

\* N8nProvider.getRates
N8nGetRates ==
  /\ adapterCall = NoAdapterCall
  /\ \E request \in AdapterRequests :
       \/ Finished("n8n", "getRates", request, << "POST rate-comparison" >>,
                   "n8n webhook error", << >>, << >>, NoLabel)
       \/ \E rates \in GetRatesResults("n8n") :
            Finished("n8n", "getRates", request, << "POST rate-comparison" >>, "ok",
                     << >>, rates, NoLabel)
  /\ UNCHANGED adapterUnchanged

\* N8nProvider.createLabel
N8nCreateLabel ==
  /\ adapterCall = NoAdapterCall
  /\ \E request \in AdapterRequests :
       \/ Finished("n8n", "createLabel", request, << "POST book-shipment" >>,
                   "n8n webhook error", << >>, << >>, NoLabel)
       \/ Finished("n8n", "createLabel", request, << "POST book-shipment" >>,
                   "ok", << >>, << >>, AdapterLabel("n8n", request))
  /\ UNCHANGED adapterUnchanged

\* EasyPostProvider.getRates
EasyPostGetRates ==
  /\ adapterCall = NoAdapterCall
  /\ \E request \in AdapterRequests :
       \/ Finished("easypost", "getRates", request, << "POST /shipments" >>,
                   "EasyPost API error", << >>, << >>, NoLabel)
       \/ \E rates \in GetRatesResults("easypost") :
            Finished("easypost", "getRates", request, << "POST /shipments" >>, "ok",
                     << >>, rates, NoLabel)
  /\ UNCHANGED adapterUnchanged

\* the caller has taken the result; the adapter holds nothing of the call
AdapterReturns ==
  /\ adapterCall # NoAdapterCall
  /\ adapterCall' = NoAdapterCall
  /\ UNCHANGED adapterUnchanged

InitAdapters ==
  /\ providers = ProviderKeys
  /\ validation = [ mode |-> "off", autofix |-> FALSE ]
  /\ RatesIdle
  /\ EasyPostIdle
  /\ adapterCall = NoAdapterCall
  /\ easyshipConfig \in { EasyshipProvider(cfg) : cfg \in EasyshipConfigs }
  /\ UtilityIdle

NextAdapters ==
  \/ EasyshipGetRates
  \/ EasyshipCreateLabel
  \/ N8nGetRates
  \/ N8nCreateLabel
  \/ EasyPostGetRates
  \/ AdapterReturns

SpecAdapters == InitAdapters /\ [][NextAdapters]_vars

-----------------------------------------------------------------------------
(* BaseShippingProvider.retryWithBackoff *)

BaseDelays == { 250, 1000 }

\* what fn() can reject with: an Error object (a new one at each attempt) or a
\* value that is not an Error
Rejections(attempt) ==
  { [ kind |-> "Error", id |-> attempt + 1, message |-> "timeout" ],
    [ kind |-> "string", id |-> 0, message |-> "boom" ] }

\* error instanceof Error ? error : new Error(String(error))
AsError(error, attempt) ==
  IF error.kind = "Error" THEN error
  ELSE [ kind |-> "Error", id |-> MaxRetriesBudget + attempt + 1, message |-> error.message ]

backoffLinear(baseDelay, attempt) == baseDelay * (attempt + 1)

\* baseDelay * Math.pow(2, attempt)
backoff(baseDelay, attempt) == baseDelay * 2 ^ attempt

retryUnchanged ==
  << envVars, ratesVars, easypostVars, adapterCall, easyshipConfig, decorated, factory,
     route, dimCalc, hsCheck,
     laterVars, preflight >>

\* retryWithBackoff(fn, maxRetries, baseDelay) up to its first await; with a
\* budget of 0 the loop body never runs and the undefined lastError is thrown
RetryCall ==
  /\ retry = NoRetry
  /\ \E maxRetries \in 0..MaxRetriesBudget, baseDelay \in BaseDelays :
       retry' = [ NoRetry EXCEPT !.maxRetries = maxRetries, !.baseDelay = baseDelay,
                                 !.phase = IF maxRetries = 0 THEN "threw" ELSE "attempting",
                                 !.thrown = IF maxRetries = 0
                                            THEN << [ kind |-> "undefined", id |-> 0,
                                                      message |-> "" ] >>
                                            ELSE << >> ]
  /\ UNCHANGED retryUnchanged

\* fn() resolves: return await fn()
AttemptResolves ==
  /\ retry.phase = "attempting"
  /\ retry' = [ retry EXCEPT !.phase = "returned",
                             !.result = << [ kind |-> "value", id |-> retry.attempt ] >> ]
  /\ UNCHANGED retryUnchanged

\* fn() rejects: the catch block, then either the timer is set or the loop ends
\* and lastError is thrown
AttemptRejects ==
  /\ retry.phase = "attempting"
  /\ \E error \in Rejections(retry.attempt) :
       LET lastError == AsError(error, retry.attempt)
       IN  IF retry.attempt < retry.maxRetries - 1
           THEN retry' = [ retry EXCEPT
                             !.raised = Append(@, error),
                             !.lastError = << lastError >>,
                             !.waits = Append(@, backoff(retry.baseDelay, retry.attempt)),
                             !.phase = "waiting" ]
           ELSE retry' = [ retry EXCEPT
                             !.raised = Append(@, error),
                             !.lastError = << lastError >>,
                             !.attempt = @ + 1,
                             !.phase = "threw",
                             !.thrown = << lastError >> ]
  /\ UNCHANGED retryUnchanged

\* setTimeout fires: attempt++ and the next fn()
TimerFires ==
  /\ retry.phase = "waiting"
  /\ retry' = [ retry EXCEPT !.attempt = @ + 1, !.phase = "attempting" ]
  /\ UNCHANGED retryUnchanged

\* the caller has taken the value or the error
RetrySettled ==
  /\ retry.phase \in { "returned", "threw" }
  /\ retry' = NoRetry
  /\ UNCHANGED retryUnchanged

NextRetry ==
  \/ RetryCall
  \/ AttemptResolves
  \/ AttemptRejects
  \/ TimerFires
  \/ RetrySettled

SpecRetry == InitIdle /\ [][NextRetry]_vars

-----------------------------------------------------------------------------
(* ShipperDefaultsDecorator *)

\* the address fields followed here; the spread treats every key alike
AddressFields == { "name", "company", "zip" }

\* a key the object does not have, as opposed to a key holding undefined
Absent == "absent"

\* request origins: each key absent, undefined, empty or filled
DecoratorOrigins == [ AddressFields -> { Absent, Undef, "", "Ann" } ]

\* defaults as getShipperDefaultsFromEnv returns them: every key present, holding
\* the environment value or undefined
ShipperDefaultsSets == [ AddressFields -> { Undef, "Acme" } ]

DecoratorRequests ==
  { [ origin |-> << >>, destination |-> "MX" ] }
    \cup { [ origin |-> << o >>, destination |-> "MX" ] : o \in DecoratorOrigins }

\* { ...a, ...b }: b's own keys, undefined values included, overwrite a's
Spread(a, b) == [ f \in AddressFields |-> IF b[f] # Absent THEN b[f] ELSE a[f] ]

\* ShipperDefaultsDecorator.apply
apply(req) ==
  LET origin == IF req.origin # << >> THEN req.origin[1]
                ELSE [ f \in AddressFields |-> Absent ]
      merged == Spread(decorated.defaults[1], origin)
  IN  [ req EXCEPT !.origin = << merged >> ]

decoratorUnchanged ==
  << envVars, ratesVars, easypostVars, adapterCall, easyshipConfig, retry, factory, route,
     dimCalc, hsCheck,
     laterVars, preflight >>

\* ShipperDefaultsDecorator.getRates: inner.getRates(this.apply(request))
DecoratorGetRates ==
  /\ decorated.op = "none"
  /\ \E request \in DecoratorRequests :
       decorated' = [ decorated EXCEPT !.op = "getRates", !.request = << request >>,
                                       !.inner = << apply(request) >> ]
  /\ UNCHANGED decoratorUnchanged

\* ShipperDefaultsDecorator.createLabel: inner.createLabel(this.apply(request))
DecoratorCreateLabel ==
  /\ decorated.op = "none"
  /\ \E request \in DecoratorRequests :
       decorated' = [ decorated EXCEPT !.op = "createLabel", !.request = << request >>,
                                       !.inner = << apply(request) >> ]
  /\ UNCHANGED decoratorUnchanged

\* the wrapped adapter's promise was handed back to the caller
DecoratorReturns ==
  /\ decorated.op # "none"
  /\ decorated' = [ decorated EXCEPT !.op = "none", !.request = << >>, !.inner = << >> ]
  /\ UNCHANGED decoratorUnchanged

\* new ShipperDefaultsDecorator(inner, defaults)
InitDecorator ==
  /\ providers = ProviderKeys
  /\ validation = [ mode |-> "off", autofix |-> FALSE ]
  /\ RatesIdle
  /\ EasyPostIdle
  /\ adapterCall = NoAdapterCall
  /\ EasyshipIdle
  /\ retry = NoRetry
  /\ decorated \in { [ NoDecorated EXCEPT !.defaults = << dflt >> ] :
                       dflt \in ShipperDefaultsSets }
  /\ factory = NoFactory
  /\ route = NoRoute
  /\ dimCalc = NoDimCalc
  /\ hsCheck = NoHsCheck
  /\ LaterIdle

NextDecorator == DecoratorGetRates \/ DecoratorCreateLabel \/ DecoratorReturns

SpecDecorator == InitDecorator /\ [][NextDecorator]_vars

-----------------------------------------------------------------------------
(* createProvidersFromEnv *)

\* process.env: the variables the provider map depends on; Undef is unset
ProcessEnvs ==
  [ EASYPOST_MODE : { Undef, "production" },
    EASYPOST_TEST_API_KEY : { Undef, "ek_test" },
    EASYPOST_PROD_API_KEY : { Undef, "ek_prod" },
    EASYPOST_API_KEY : { Undef, "ek" },
    EASYSHIP_API_KEY : { Undef, "", "sk" },
    EASYSHIP_INCOTERM_DEFAULT : { Undef, "ddu" },
    EASYSHIP_DDP_RESTRICTED : { Undef, "", "mx, hk" },
    N8N_WEBHOOK_BASE_URL : { Undef, "", "http://n8n" },
    SHIPPER_NAME : { Undef, "Ann" },
    SHIPPER_STREET2 : { Undef, "Suite 1" },
    SHIPPER_ZIP : { Undef, "10001" } ]

\* a || b on optional strings
Or(a, b) == IF Truthy(a) THEN a ELSE b

\* s.split(",").map(s => s.trim()).filter(Boolean), as the set of its entries
splitTrimFilter(s) ==
  CASE s = "MX,BR,AR" -> { "MX", "BR", "AR" }
    [] s = "mx, hk" -> { "mx", "hk" }
    [] OTHER -> { }

\* shippingEnv as the env package computes it from process.env
shippingEnv(env) ==
  [ easypost |->
      [ apiKey |-> IF env.EASYPOST_MODE = "production"
                   THEN Or(env.EASYPOST_PROD_API_KEY, Or(env.EASYPOST_API_KEY, ""))
                   ELSE Or(env.EASYPOST_TEST_API_KEY, Or(env.EASYPOST_API_KEY, "")) ],
    easyship |->
      [ apiKey |-> Or(env.EASYSHIP_API_KEY, ""),
        incotermDefault |-> toUpperCase(Or(env.EASYSHIP_INCOTERM_DEFAULT, "DDP")),
        ddpRestricted |-> splitTrimFilter(Or(env.EASYSHIP_DDP_RESTRICTED, "MX,BR,AR")) ],
    n8n |-> [ baseUrl |-> Or(env.N8N_WEBHOOK_BASE_URL, "") ],
    shipperDefaults |->
      [ name |-> env.SHIPPER_NAME, street2 |-> env.SHIPPER_STREET2,
        zip |-> env.SHIPPER_ZIP ] ]

\* getShipperDefaultsFromEnv: << >> is null; street2 is not part of hasAny
getShipperDefaultsFromEnv(s) ==
  LET hasAny == Truthy(s.name) \/ Truthy(s.zip)
  IN  IF ~hasAny THEN << >> ELSE << s >>

MapEntry(key, wrapped) == [ key |-> key, wrapped |-> wrapped ]

\* createProvidersFromEnv: the Map's entries in insertion order, each with
\* whether the adapter went through withShipperDefaults and got the decorator
createProvidersFromEnv(senv) ==
  LET shipperDefaults == getShipperDefaultsFromEnv(senv.shipperDefaults)
      withShipperDefaults == shipperDefaults # << >>
  IN  (IF Truthy(senv.easypost.apiKey)
       THEN << MapEntry("easypost", withShipperDefaults) >> ELSE << >>)
      \o (IF Truthy(senv.easyship.apiKey)
          THEN << MapEntry("easyship", withShipperDefaults) >> ELSE << >>)
      \o (IF Truthy(senv.n8n.baseUrl) THEN << MapEntry("n8n", FALSE) >> ELSE << >>)

\* the EasyshipConfig createProvidersFromEnv hands to new EasyshipProvider
easyshipConfigFromEnv(senv) ==
  [ incotermDefault |->
      IF Or(senv.easyship.incotermDefault, "DDP") = "DDU" THEN "DDU" ELSE "DDP",
    ddpRestricted |-> << { toUpperCase(c) : c \in senv.easyship.ddpRestricted } >> ]

factoryUnchanged ==
  << envVars, ratesVars, easypostVars, adapterCall, retry, decorated,
     route, dimCalc, hsCheck,
     laterVars, preflight >>

\* one call of createProvidersFromEnv under some environment; no statement of
\* it throws; easyshipConfig is the state of the EasyshipProvider it constructs
CreateProvidersFromEnv ==
  /\ factory = NoFactory
  /\ \E env \in ProcessEnvs :
       LET senv == shippingEnv(env)
       IN  /\ factory' = [ env |-> << env >>, map |-> createProvidersFromEnv(senv),
                           raised |-> FALSE ]
           /\ easyshipConfig' = IF Truthy(senv.easyship.apiKey)
                                  THEN EasyshipProvider(easyshipConfigFromEnv(senv))
                                  ELSE easyshipConfig
  /\ UNCHANGED factoryUnchanged

\* the Map was returned
FactoryReturns ==
  /\ factory # NoFactory
  /\ factory' = NoFactory
  /\ UNCHANGED << easyshipConfig, factoryUnchanged >>

NextFactory == CreateProvidersFromEnv \/ FactoryReturns

SpecFactory == InitIdle /\ [][NextFactory]_vars

-----------------------------------------------------------------------------
(* /book, /track/:trackingNumber and DELETE /:shipmentId handlers *)

\* rate.provider of a booking request (Undef: no rate, or a rate without provider)
RateProviders == { Undef, "EasyPost", "Easyship", "n8n", "shippo" }

\* the provider query parameter of a tracking or cancellation request
QueryProviders == { Undef, "", "easypost", "easyship", "n8n", "EasyPost", "fedex" }

selectProviderOrFirst(providerName) ==
  IF providers = { } THEN << >>
  ELSE IF providerName \in providers THEN << providerName >>
  ELSE << Head(ProviderValues(providers)) >>

\* providerName ? providers.get(providerName) : providers.values().next().value
\* (<< >> when the result is undefined)
selectProvider(providerName) ==
  IF Truthy(providerName)
  THEN (IF providerName \in providers THEN << providerName >> ELSE << >>)
  ELSE (IF providers = { } THEN << >> ELSE << Head(ProviderValues(providers)) >>)

Invocation(adapter, op) == [ adapter |-> adapter, op |-> op ]

Routed(handler, request, invoked, status, code) ==
  route' = [ handler |-> handler, request |-> << request >>, invoked |-> invoked,
             status |-> status, code |-> code ]

\* where the rate of a booking request comes from: an adapter of the map, whose
\* getRates returned it through the /rates handler, or elsewhere (Undef)
RateSources == providers \cup { Undef }

\* rate.provider of the rates the given source can supply
RateProvidersFrom(source) ==
  IF source = Undef THEN RateProviders
  ELSE UNION { { rates[i].provider : i \in 1..Len(rates) } :
                 rates \in GetRatesResults(source) }

routerUnchanged ==
  << envVars, ratesVars, easypostVars, adapterCall, easyshipConfig, retry, decorated,
     factory, dimCalc, hsCheck, laterVars >>

\* router.post('/book'), from the request to the response
Book ==
  /\ route = NoRoute
  /\ \E source \in RateSources, originIn \in OriginInputs,
        destinationGiven \in BOOLEAN, labelOk \in BOOLEAN :
     \E rateProvider \in RateProvidersFrom(source) :
       LET request == [ name |-> rateProvider, originIn |-> originIn, from |-> source ]
           providerName == IF rateProvider = Undef THEN Undef
                           ELSE toLowerCase(rateProvider)
           provider == selectProvider(providerName)
           skipped == Preflight("book", destinationGiven, FALSE, << >>, << >>)
       IN  IF originIn = "byIdMissing"
           THEN /\ Routed("book", request, << >>, 404, "SHIP_FROM_NOT_FOUND")
                /\ preflight' = skipped
           ELSE IF originIn = "none"
           THEN /\ Routed("book", request, << >>, 400, "ORIGIN_REQUIRED")
                /\ preflight' = skipped
           ELSE IF provider = << >>
           THEN /\ Routed("book", request, << >>, 400, "PROVIDER_NOT_FOUND")
                /\ preflight' = skipped
           ELSE \E ov \in ValidateAddressResults(provider[1]),
                   dv \in ValidateAddressResults(provider[1]) :
                  LET ran == validation.mode # "off" /\ destinationGiven
                      done == Preflight("book", destinationGiven, ran, ov, dv)
                      checks == IF ~ran THEN << >>
                                ELSE << Invocation(provider[1], "validateAddress"),
                                        Invocation(provider[1], "validateAddress") >>
                  IN  /\ preflight' = done
                      /\ IF done.verdict = "throw"
                         THEN Routed("book", request, checks, 500, "BOOK_ERROR")
                         ELSE IF done.verdict = "ADDRESS_INVALID"
                         THEN Routed("book", request, checks, 400, "ADDRESS_INVALID")
                         ELSE IF labelOk
                         THEN Routed("book", request,
                                     Append(checks, Invocation(provider[1], "createLabel")),
                                     200, "")
                         ELSE Routed("book", request,
                                     Append(checks, Invocation(provider[1], "createLabel")),
                                     500, "BOOK_ERROR")
  /\ UNCHANGED routerUnchanged

\* router.get('/track/:trackingNumber')
Track ==
  /\ route = NoRoute
  /\ \E providerName \in QueryProviders, ok \in BOOLEAN :
       LET request == [ name |-> providerName, originIn |-> "given", from |-> Undef ]
           provider == selectProvider(providerName)
       IN  IF provider = << >>
           THEN Routed("track", request, << >>, 400, "PROVIDER_NOT_FOUND")
           ELSE IF ok
           THEN Routed("track", request, << Invocation(provider[1], "trackShipment") >>,
                       200, "")
           ELSE Routed("track", request, << Invocation(provider[1], "trackShipment") >>,
                       500, "TRACK_ERROR")
  /\ UNCHANGED << routerUnchanged, preflight >>

\* router.delete('/:shipmentId')
Cancel ==
  /\ route = NoRoute
  /\ \E providerName \in QueryProviders, ok \in BOOLEAN :
       LET request == [ name |-> providerName, originIn |-> "given", from |-> Undef ]
           provider == selectProvider(providerName)
       IN  IF provider = << >>
           THEN Routed("cancel", request, << >>, 400, "PROVIDER_NOT_FOUND")
           ELSE IF ok
           THEN Routed("cancel", request, << Invocation(provider[1], "cancelShipment") >>,
                       200, "")
           ELSE Routed("cancel", request, << Invocation(provider[1], "cancelShipment") >>,
                       500, "CANCEL_ERROR")
  /\ UNCHANGED << routerUnchanged, preflight >>

\* the response was sent; the handler keeps nothing of the request
RouteNext ==
  /\ route # NoRoute
  /\ route' = NoRoute
  /\ preflight' = NoPreflight
  /\ UNCHANGED routerUnchanged

InitRouter ==
  /\ providers \in SUBSET ProviderKeys
  /\ validation \in [ mode : { "off", "remote" }, autofix : BOOLEAN ]
  /\ RatesIdle
  /\ EasyPostIdle
  /\ adapterCall = NoAdapterCall
  /\ EasyshipIdle
  /\ UtilityIdle

NextRouter == Book \/ Track \/ Cancel \/ RouteNext

SpecRouter == InitRouter /\ [][NextRouter]_vars

-----------------------------------------------------------------------------
(* BaseShippingProvider.calculateDimensionalWeight *)

\* Lengths and weights are counted in halves of a unit (23 is 11.5), which
\* JavaScript numbers hold exactly; a volume is then counted in eighths.

DimCarriers == { "FedEx", "fedex", "UPS", "ups", "USPS", "usps", "dhl", "ontrac" }

DimParcels ==
  [ length : { 23, 24, 278, 279, 332, 333 }, width : { 2, 3, 24 }, height : { 2, 3 },
    weight : { 1, 2, 4, 5, 6 } ]

\* Math.ceil of a number of halves, in halves
MathCeil(x) == ((x + 1) \div 2) * 2

\* DIM_FACTORS[key]; 0 stands for undefined
DIM_FACTORS(key) ==
  CASE key = "fedex" -> 139
    [] key = "ups" -> 139
    [] key = "usps" -> 166
    [] key = "dhl" -> 139
    [] OTHER -> 0

calculateDimensionalWeightExact(parcel, carrier) ==
  LET volume == parcel.length * parcel.width * parcel.height
      dimFactor == IF DIM_FACTORS(toLowerCase(carrier)) # 0
                   THEN DIM_FACTORS(toLowerCase(carrier)) ELSE 139
      dimWeight == 2 * ((volume + 8 * dimFactor - 1) \div (8 * dimFactor))
  IN  [ billableWeight |-> IF parcel.weight >= dimWeight THEN parcel.weight ELSE dimWeight,
        usedDim |-> dimWeight > parcel.weight ]

calculateDimensionalWeight(parcel, carrier) ==
  LET shouldRoundUp == toLowerCase(carrier) \in { "fedex", "ups" }
      l == IF shouldRoundUp THEN MathCeil(parcel.length) ELSE parcel.length
      w == IF shouldRoundUp THEN MathCeil(parcel.width) ELSE parcel.width
      h == IF shouldRoundUp THEN MathCeil(parcel.height) ELSE parcel.height
      volume == l * w * h
      dimFactor == IF DIM_FACTORS(toLowerCase(carrier)) # 0
                   THEN DIM_FACTORS(toLowerCase(carrier)) ELSE 139
      \* Math.ceil(volume / dimFactor), a whole number of units, in halves
      dimWeight == 2 * ((volume + 8 * dimFactor - 1) \div (8 * dimFactor))
  IN  [ billableWeight |-> IF parcel.weight >= dimWeight THEN parcel.weight ELSE dimWeight,
        usedDim |-> dimWeight > parcel.weight ]

dimUnchanged ==
  << envVars, ratesVars, easypostVars, adapterCall, easyshipConfig, retry, decorated,
     factory, route, hsCheck,
     laterVars, preflight >>

CalculateDimensionalWeight ==
  /\ dimCalc = NoDimCalc
  /\ \E parcel \in DimParcels, carrier \in DimCarriers :
       dimCalc' = [ input |-> << [ parcel |-> parcel, carrier |-> carrier ] >>,
                    result |-> << calculateDimensionalWeight(parcel, carrier) >> ]
  /\ UNCHANGED dimUnchanged

\* the result was returned
DimCalcReturns ==
  /\ dimCalc # NoDimCalc
  /\ dimCalc' = NoDimCalc
  /\ UNCHANGED dimUnchanged

NextDim == CalculateDimensionalWeight \/ DimCalcReturns

SpecDim == InitIdle /\ [][NextDim]_vars

-----------------------------------------------------------------------------
(* trackShipment and mapStatus of the three adapters *)

\* enum TrackingStatus
TrackingStatus ==
  { "label_created", "pre_transit", "in_transit", "out_for_delivery", "delivered",
    "returned", "exception", "cancelled" }

\* outcome of evaluating status.toLowerCase() on undefined
TypeError == "TypeError"

\* what reading an inherited property of an object literal yields
InheritedFunction == "[Function]"

\* property names every object literal inherits from Object.prototype
ObjectPrototypeKeys == { "constructor", "toString" }

\* map[key] on an object literal: own keys first, then the prototype chain
Lookup(map, key) ==
  IF key \in DOMAIN map THEN map[key]
  ELSE IF key \in ObjectPrototypeKeys THEN InheritedFunction
  ELSE Undef

\* String.prototype.replace(/[_-]/g, '') over the statuses used here
removeSeparators(s) ==
  CASE s = "label_created" -> "labelcreated"
    [] s = "pre_transit" -> "pretransit"
    [] s = "in_transit" -> "intransit"
    [] s = "out_for_delivery" -> "outfordelivery"
    [] s = "out-for-delivery" -> "outfordelivery"
    [] OTHER -> s

EasyPostStatusMap ==
  [ k \in { "unknown", "pre_transit", "in_transit", "out_for_delivery", "delivered",
            "returned", "failure", "cancelled" } |->
      CASE k = "unknown" -> "label_created"
        [] k = "failure" -> "exception"
        [] OTHER -> k ]

EasyshipStatusMap ==
  [ k \in { "InfoReceived", "InTransit", "OutForDelivery", "Delivered",
            "AvailableForPickup", "FailedAttempt", "Exception" } |->
      CASE k = "InfoReceived" -> "label_created"
        [] k = "InTransit" -> "in_transit"
        [] k = "OutForDelivery" -> "out_for_delivery"
        [] k = "Delivered" -> "delivered"
        [] k = "AvailableForPickup" -> "out_for_delivery"
        [] k = "FailedAttempt" -> "exception"
        [] k = "Exception" -> "exception" ]

N8nStatusMap ==
  [ k \in { "pending", "labelcreated", "pretransit", "intransit", "outfordelivery",
            "delivered", "returned", "exception", "cancelled" } |->
      CASE k = "pending" -> "label_created"
        [] k = "labelcreated" -> "label_created"
        [] k = "pretransit" -> "pre_transit"
        [] k = "intransit" -> "in_transit"
        [] k = "outfordelivery" -> "out_for_delivery"
        [] OTHER -> k ]

\* EasyPostProvider.mapStatus: map[status.toLowerCase()] ?? EXCEPTION
EasyPostMapStatus(status) ==
  IF status = Undef THEN TypeError
  ELSE LET found == Lookup(EasyPostStatusMap, toLowerCase(status))
       IN  IF found = Undef THEN "exception" ELSE found

\* EasyshipProvider.mapStatus: map[status] ?? EXCEPTION
EasyshipMapStatus(status) ==
  LET found == Lookup(EasyshipStatusMap, status)
  IN  IF found = Undef THEN "exception" ELSE found

\* N8nProvider.mapStatus: map[normalized] || 'exception'
N8nMapStatus(status) ==
  LET normalized == removeSeparators(toLowerCase(IF Truthy(status) THEN status ELSE ""))
      found == Lookup(N8nStatusMap, normalized)
  IN  IF Truthy(found) THEN found ELSE "exception"

\* raw statuses a provider may send: every table key, other spellings of keys,
\* statuses of no table, the empty string and no status at all
RawStatuses ==
  DOMAIN EasyPostStatusMap \cup DOMAIN EasyshipStatusMap \cup DOMAIN N8nStatusMap
    \cup { "IN_TRANSIT", "out-for-delivery", "label_created", "lost", "constructor",
           "", Undef }

EventStatuses == { "delivered", "InTransit", "in_transit", "lost", "", Undef }

\* tracking_details / checkpoints / events of the response, by their statuses
EventLists == SeqsUpTo(EventStatuses, MaxEvents)

\* the TrackingInfo built from the response, or the error the call rejects with
TrackingInfo(mapped, events) ==
  IF mapped = TypeError \/ \E i \in 1..Len(events) : events[i] = TypeError
    THEN [ outcome |-> TypeError, status |-> Undef, events |-> << >> ]
    ELSE [ outcome |-> "returned", status |-> mapped, events |-> events ]

ApiError == [ outcome |-> "ApiError", status |-> Undef, events |-> << >> ]

trackUnchanged ==
  << envVars, ratesVars, easypostVars, adapterCall, utilityVars, addrCheck, envUnits,
     shipFrom, repoOps, agent, preflight >>

\* one trackShipment call answered by the provider with the given tracker
Tracked(adapter, ok, status, events, info) ==
  /\ tracked' = [ adapter |-> adapter, ok |-> ok, status |-> status, events |-> events,
                  result |-> << IF ok THEN info ELSE ApiError >> ]
  /\ UNCHANGED trackUnchanged

\* EasyPostProvider.trackShipment: a tracker whose statuses cannot be mapped makes
\* the SDK branch fall through to the REST request, which reads the same tracker
EasyPostTrackShipment ==
  /\ tracked = NoTracked
  /\ \E ok \in BOOLEAN, status \in RawStatuses, events \in EventLists :
       Tracked("easypost", ok, status, events,
               TrackingInfo(EasyPostMapStatus(status),
                            [ i \in 1..Len(events) |-> EasyPostMapStatus(events[i]) ]))

\* EasyshipProvider.trackShipment
EasyshipTrackShipment ==
  /\ tracked = NoTracked
  /\ \E ok \in BOOLEAN, status \in RawStatuses, events \in EventLists :
       Tracked("easyship", ok, status, events,
               TrackingInfo(EasyshipMapStatus(status),
                            [ i \in 1..Len(events) |-> EasyshipMapStatus(events[i]) ]))

\* N8nProvider.trackShipment
N8nTrackShipment ==
  /\ tracked = NoTracked
  /\ \E ok \in BOOLEAN, status \in RawStatuses, events \in EventLists :
       Tracked("n8n", ok, status, events,
               TrackingInfo(N8nMapStatus(status),
                            [ i \in 1..Len(events) |-> N8nMapStatus(events[i]) ]))

\* the caller received the TrackingInfo or the rejection
TrackReturns ==
  /\ tracked # NoTracked
  /\ tracked' = NoTracked
  /\ UNCHANGED trackUnchanged

NextTrack ==
  \/ EasyPostTrackShipment
  \/ EasyshipTrackShipment
  \/ N8nTrackShipment
  \/ TrackReturns

SpecTrack == InitIdle /\ [][NextTrack]_vars

-----------------------------------------------------------------------------
(* validateAddress of the three adapters *)

\* the fields of an Address that reverseTransformAddress defaults to ''
RequiredAddressFields == { "name", "street1", "city", "zip", "country" }

\* EasyPostProvider.reverseTransformAddress
reverseTransformAddress(data) ==
  [ f \in DOMAIN data |->
      IF f \in RequiredAddressFields /\ data[f] = Undef THEN "" ELSE data[f] ]

\* addresses handed to validateAddress
CheckedAddresses == { AddrUS, AddrCompanyOnly }

\* the address object the verification service answers with
CreatedAddresses ==
  { [ AddrUS EXCEPT !.zip = "10001-1234" ], [ AddrUS EXCEPT !.name = Undef ] }

ErrorMessages == { << >>, << "Address not found" >>,
                   << "Address not found", "Invalid zip" >> }

\* verifications.delivery of the answer: absent, or success and errors, each of
\* which may be absent
Deliveries ==
  { << >> } \cup
  { << [ success |-> s, errors |-> e ] >> :
      s \in { << >>, << TRUE >>, << FALSE >> }, e \in { << >> } \cup { << m >> : m \in ErrorMessages } }

\* delivery?.errors?.length
ErrorsLength(delivery) ==
  IF delivery = << >> \/ delivery[1].errors = << >> THEN 0
  ELSE Len(delivery[1].errors[1])

\* the AddressValidationResult built from the answer, trusting delivery.success
\* for validity
VerificationResultBySuccess(address, created, delivery) ==
  [ valid |-> delivery # << >> /\ delivery[1].success = << TRUE >>,
    original |-> address,
    suggested |-> IF delivery # << >> /\ delivery[1].success = << TRUE >>
                    THEN << reverseTransformAddress(created) >> ELSE << >>,
    errors |-> IF delivery = << >> THEN << >> ELSE delivery[1].errors ]

\* the AddressValidationResult built from the answer:
\*   valid: !delivery?.errors?.length, suggested: delivery?.success ? ... : undefined,
\*   errors: delivery?.errors?.map(e => e.message)
VerificationResult(address, created, delivery) ==
  [ valid |-> ErrorsLength(delivery) = 0,
    original |-> address,
    suggested |-> IF delivery # << >> /\ delivery[1].success = << TRUE >>
                    THEN << reverseTransformAddress(created) >> ELSE << >>,
    errors |-> IF delivery = << >> THEN << >> ELSE delivery[1].errors ]

addrUnchanged ==
  << envVars, ratesVars, easypostVars, adapterCall, utilityVars, tracked, envUnits,
     shipFrom, repoOps, agent, preflight >>

\* EasyPostProvider.validateAddress: the SDK's Address.create when the SDK is
\* loaded, the REST request when it is not or when the SDK call raised
EasyPostValidateAddress ==
  /\ addrCheck = NoAddrCheck
  /\ \E address \in CheckedAddresses, created \in CreatedAddresses,
        delivery \in Deliveries, sdk \in BOOLEAN, sdkRaises \in BOOLEAN,
        restOk \in BOOLEAN :
       /\ sdkRaises => sdk
       /\ (sdk /\ ~sdkRaises) => restOk
       /\ LET viaSdk == sdk /\ ~sdkRaises
              answered == viaSdk \/ restOk
          IN  addrCheck' =
                [ adapter |-> "easypost", address |-> << address >>,
                  delivery |-> delivery,
                  requests |-> (IF sdk THEN 1 ELSE 0) + (IF viaSdk THEN 0 ELSE 1),
                  outcome |-> IF answered THEN "returned" ELSE "ApiError",
                  result |-> IF answered
                               THEN << VerificationResult(address, created, delivery) >>
                               ELSE << >> ]
  /\ UNCHANGED addrUnchanged

\* the validateAddress of an adapter without verification
AlwaysValid(adapter) ==
  /\ addrCheck = NoAddrCheck
  /\ \E address \in CheckedAddresses \cup { AddrBad } :
       addrCheck' =
         [ adapter |-> adapter, address |-> << address >>, delivery |-> << >>,
           requests |-> 0, outcome |-> "returned",
           result |-> << [ valid |-> TRUE, original |-> address, suggested |-> << >>,
                           errors |-> << >> ] >> ]
  /\ UNCHANGED addrUnchanged

\* EasyshipProvider.validateAddress
EasyshipValidateAddress == AlwaysValid("easyship")

\* N8nProvider.validateAddress
N8nValidateAddress == AlwaysValid("n8n")

ValidateAddressReturns ==
  /\ addrCheck # NoAddrCheck
  /\ addrCheck' = NoAddrCheck
  /\ UNCHANGED addrUnchanged

NextAddr ==
  \/ EasyPostValidateAddress
  \/ EasyshipValidateAddress
  \/ N8nValidateAddress
  \/ ValidateAddressReturns

SpecAddr == InitIdle /\ [][NextAddr]_vars

-----------------------------------------------------------------------------
(* The env package: Easyship units read from process.env *)

\* process.env when the env module is loaded; Undef is an unset variable
UnitEnvs ==
  [ EASYSHIP_WEIGHT_UNIT : { Undef, "", "kg", "lb", "oz" },
    EASYSHIP_UNITS_WEIGHT : { Undef, "", "kg", "lb" },
    EASYSHIP_DIMENSION_UNIT : { Undef, "", "cm", "in" },
    EASYSHIP_UNITS_DIMENSIONS : { Undef, "", "in" },
    EASYSHIP_API_KEY : { "sk" },
    ENV_VALIDATION_STRICT : { Undef, "true" } ]

\* the units with the legacy variable read before the new one
easyshipUnitsLegacyFirst(env) ==
  [ weightUnit |-> Or(env.EASYSHIP_UNITS_WEIGHT, Or(env.EASYSHIP_WEIGHT_UNIT, "kg")),
    dimensionUnit |->
      Or(env.EASYSHIP_UNITS_DIMENSIONS, Or(env.EASYSHIP_DIMENSION_UNIT, "cm")) ]

\* shippingEnv.easyship.weightUnit and .dimensionUnit
easyshipUnits(env) ==
  [ weightUnit |-> Or(env.EASYSHIP_WEIGHT_UNIT, Or(env.EASYSHIP_UNITS_WEIGHT, "kg")),
    dimensionUnit |->
      Or(env.EASYSHIP_DIMENSION_UNIT, Or(env.EASYSHIP_UNITS_DIMENSIONS, "cm")) ]

\* ["1", "true", "yes", "on"].includes((ENV_VALIDATION_STRICT || "false").toLowerCase())
strictValidation(env) ==
  toLowerCase(Or(env.ENV_VALIDATION_STRICT, "false")) \in { "1", "true", "yes", "on" }

\* easyshipSchema.parse succeeds on the unit and key fields
easyshipSchema(env, units) ==
  /\ strictValidation(env) => Truthy(Or(env.EASYSHIP_API_KEY, ""))
  /\ units.weightUnit \in { "kg", "lb" }
  /\ units.dimensionUnit \in { "cm", "in" }

envUnchanged ==
  << envVars, ratesVars, easypostVars, adapterCall, utilityVars, tracked, addrCheck,
     shipFrom, repoOps, agent, preflight >>

\* the env module is evaluated: shippingEnv is built, then validateShippingEnv
\* throws when the schema fails under strict validation and warns otherwise
LoadEnvModule ==
  /\ envUnits = NoEnvUnits
  /\ \E env \in UnitEnvs :
       LET units == easyshipUnits(env)
           raised == strictValidation(env) /\ ~easyshipSchema(env, units)
       IN  envUnits' = [ env |-> << env >>, loaded |-> ~raised,
                         weightUnit |-> IF raised THEN "" ELSE units.weightUnit,
                         dimensionUnit |-> IF raised THEN "" ELSE units.dimensionUnit ]
  /\ UNCHANGED envUnchanged

\* the process ends; the next one starts with an environment of its own
EnvModuleUnloads ==
  /\ envUnits # NoEnvUnits
  /\ envUnits' = NoEnvUnits
  /\ UNCHANGED envUnchanged

NextEnv == LoadEnvModule \/ EnvModuleUnloads

SpecEnv == InitIdle /\ [][NextEnv]_vars

-----------------------------------------------------------------------------
(* The /rates and /book handlers serving one request at a time *)

\* a /rates request is handled while no /book request is
RatesAlone == route = NoRoute /\ NextRates

\* a /book request is handled while no /rates request is
BookAlone == rqPhase = "idle" /\ (Book \/ RouteNext)

NextPreflight == RatesAlone \/ BookAlone

SpecPreflight == InitRouter /\ [][NextPreflight]_vars

-----------------------------------------------------------------------------
(* ShipFromAddressRepository over the ship_from_addresses table *)

\* users owning ship-from addresses
Users == { "u1", "u2" }

\* ids the table hands out, in order of insertion
AddressIds == 1..MaxAddresses

\* isDefault of a create or update argument: absent, true or false
IsDefaultArgs == { << >>, << TRUE >>, << FALSE >> }

IdleOp ==
  [ op |-> "none", pc |-> "idle", userId |-> Undef, id |-> 0, isDefault |-> << >>,
    result |-> "" ]

\* the row with the given id, as a set of at most one row
RowsById(id) == { r \in shipFrom.rows : r.id = id }

\* unsetAllDefaults that leaves the table as it is
unsetAllDefaultsNone(rows, userId) == rows

\* UPDATE ship_from_addresses SET is_default = false
\*   WHERE user_id = $1 AND is_default = true
unsetAllDefaults(rows, userId) ==
  { IF r.userId = userId /\ r.isDefault THEN [ r EXCEPT !.isDefault = FALSE ] ELSE r :
      r \in rows }

\* UPDATE ship_from_addresses SET is_default = $1 WHERE id = $2
SetIsDefault(rows, id, value) ==
  { IF r.id = id THEN [ r EXCEPT !.isDefault = value ] ELSE r : r \in rows }

repoUnchanged ==
  << envVars, ratesVars, easypostVars, adapterCall, utilityVars, tracked, addrCheck,
     envUnits, agent, preflight >>

Free(s) == repoOps[s].pc \in { "idle", "done" }

Begin(s, op) ==
  /\ repoOps' = [ repoOps EXCEPT ![s] = op ]
  /\ UNCHANGED << shipFrom, repoUnchanged >>

Step(s, pc, result) == [ repoOps EXCEPT ![s].pc = pc, ![s].result = result ]

\* create(userId, address): up to its first query
Create(s) ==
  /\ Free(s)
  /\ shipFrom.created < MaxAddresses
  /\ \E userId \in Users, isDefault \in IsDefaultArgs :
       Begin(s, [ IdleOp EXCEPT !.op = "create", !.userId = userId,
                                !.isDefault = isDefault,
                                !.pc = IF isDefault = << TRUE >> THEN "unset"
                                       ELSE "insert" ])

\* update(id, address): up to its first query
Update(s) ==
  /\ Free(s)
  /\ \E id \in AddressIds, isDefault \in IsDefaultArgs :
       Begin(s, [ IdleOp EXCEPT !.op = "update", !.id = id, !.isDefault = isDefault,
                                !.pc = IF isDefault = << TRUE >> THEN "find"
                                       ELSE "update" ])

\* setDefault(id): up to its first query
SetDefault(s) ==
  /\ Free(s)
  /\ \E id \in AddressIds :
       Begin(s, [ IdleOp EXCEPT !.op = "setDefault", !.id = id, !.pc = "find" ])

\* delete(id): DELETE FROM ship_from_addresses WHERE id = $1
Delete(s) ==
  /\ Free(s)
  /\ \E id \in AddressIds :
       /\ shipFrom' = [ shipFrom EXCEPT !.rows = @ \ RowsById(id) ]
       /\ repoOps' = [ repoOps EXCEPT ![s] =
                         [ IdleOp EXCEPT !.op = "delete", !.id = id, !.pc = "done",
                                         !.result = IF RowsById(id) = { } THEN "false"
                                                    ELSE "true" ] ]
  /\ UNCHANGED repoUnchanged

\* findById(id) answered, in update and in setDefault
FindById(s) ==
  /\ repoOps[s].pc = "find"
  /\ LET found == RowsById(repoOps[s].id)
     IN  repoOps' =
           IF found = { }
           THEN IF repoOps[s].op = "setDefault" THEN Step(s, "done", "null")
                ELSE Step(s, "update", "")
           ELSE [ repoOps EXCEPT ![s].pc = "unset",
                                 ![s].userId = (CHOOSE r \in found : TRUE).userId ]
  /\ UNCHANGED << shipFrom, repoUnchanged >>

\* unsetAllDefaults(userId) answered, in create, update and setDefault
UnsetAllDefaults(s) ==
  /\ repoOps[s].pc = "unset"
  /\ shipFrom' = [ shipFrom EXCEPT !.rows = unsetAllDefaults(@, repoOps[s].userId) ]
  /\ repoOps' = Step(s, CASE repoOps[s].op = "create" -> "insert"
                          [] repoOps[s].op = "update" -> "update"
                          [] OTHER -> "set", "")
  /\ UNCHANGED repoUnchanged

\* INSERT INTO ship_from_addresses ... RETURNING * answered: the row is stored
\* under a fresh id, or the statement failed on a constraint
Insert(s) ==
  /\ repoOps[s].pc = "insert"
  /\ \/ /\ shipFrom' =
             [ rows |-> shipFrom.rows \cup
                          { [ id |-> shipFrom.created + 1, userId |-> repoOps[s].userId,
                              isDefault |-> repoOps[s].isDefault = << TRUE >> ] },
               created |-> shipFrom.created + 1 ]
        /\ repoOps' = [ repoOps EXCEPT ![s].pc = "done", ![s].result = "row",
                                       ![s].id = shipFrom.created + 1 ]
     \/ /\ repoOps' = Step(s, "done", "error")
        /\ UNCHANGED shipFrom
  /\ UNCHANGED repoUnchanged

\* UPDATE ship_from_addresses SET <fields> WHERE id = $n RETURNING * answered
UpdateRow(s) ==
  /\ repoOps[s].pc = "update"
  /\ shipFrom' = IF repoOps[s].isDefault = << >> THEN shipFrom
                 ELSE [ shipFrom EXCEPT !.rows = SetIsDefault(@, repoOps[s].id,
                                                             repoOps[s].isDefault[1]) ]
  /\ repoOps' = Step(s, "done", IF RowsById(repoOps[s].id) = { } THEN "null" ELSE "row")
  /\ UNCHANGED repoUnchanged

\* UPDATE ship_from_addresses SET is_default = true WHERE id = $1 RETURNING *
\* answered, in setDefault
SetRow(s) ==
  /\ repoOps[s].pc = "set"
  /\ shipFrom' = [ shipFrom EXCEPT !.rows = SetIsDefault(@, repoOps[s].id, TRUE) ]
  /\ repoOps' = Step(s, "done", IF RowsById(repoOps[s].id) = { } THEN "null" ELSE "row")
  /\ UNCHANGED repoUnchanged

\* the table as the migration leaves it for one user: addresses, one of them the
\* default
SeededTable ==
  [ rows |-> { [ id |-> 1, userId |-> "u1", isDefault |-> TRUE ] }, created |-> 1 ]

InitRepo(slots_) ==
  /\ providers = ProviderKeys
  /\ validation = [ mode |-> "off", autofix |-> FALSE ]
  /\ RatesIdle
  /\ EasyPostIdle
  /\ adapterCall = NoAdapterCall
  /\ EasyshipIdle
  /\ retry = NoRetry
  /\ decorated = NoDecorated
  /\ factory = NoFactory
  /\ route = NoRoute
  /\ dimCalc = NoDimCalc
  /\ hsCheck = NoHsCheck
  /\ tracked = NoTracked
  /\ addrCheck = NoAddrCheck
  /\ envUnits = NoEnvUnits
  /\ preflight = NoPreflight
  /\ agent = NoAgent
  /\ shipFrom = SeededTable
  /\ repoOps = [ s \in slots_ |-> IdleOp ]

NextRepo ==
  \E s \in DOMAIN repoOps :
    \/ Create(s)
    \/ Update(s)
    \/ SetDefault(s)
    \/ Delete(s)
    \/ FindById(s)
    \/ UnsetAllDefaults(s)
    \/ Insert(s)
    \/ UpdateRow(s)
    \/ SetRow(s)

\* one repository call at a time
SpecShipFrom == InitRepo({ 1 }) /\ [][NextRepo]_vars

\* two repository calls may be in flight together
SpecShipFromOverlap == InitRepo({ 1, 2 }) /\ [][NextRepo]_vars

-----------------------------------------------------------------------------
(* The agent manager's job processor *)

Lanes == { Undef, "p0", "p1", "p2" }

\* caps.security and caps.override of the job data: absent, true or false
CapValues == { << >>, << TRUE >>, << FALSE >> }

\* needsCompliance that never asks for passing tests
needsComplianceNever(lane, caps) == FALSE

\* const needsCompliance = lane === 'p0' || caps.security === true
needsCompliance(lane, caps) == lane = "p0" \/ caps.security = << TRUE >>

\* const canRelease = testsPassed || caps.override === true
canRelease(testsPassed, caps) == testsPassed \/ caps.override = << TRUE >>

agentUnchanged ==
  << envVars, ratesVars, easypostVars, adapterCall, utilityVars, tracked, addrCheck,
     envUnits, shipFrom, repoOps, preflight >>

\* the processor takes a job: lane and caps are read from its data
JobReceived ==
  /\ agent = NoAgent
  /\ \E lane \in Lanes, security \in CapValues, override \in CapValues,
        octokit \in BOOLEAN :
       agent' = [ NoAgent EXCEPT !.phase = "build",
                                 !.lane = IF lane = Undef THEN "p1" ELSE lane,
                                 !.caps = [ security |-> security, override |-> override ],
                                 !.octokit = octokit ]
  /\ UNCHANGED agentUnchanged

\* processWithLangChain, then taskQueue.add('testrunner', ...), which may reject
SubmitTestRunner ==
  /\ agent.phase = "build"
  /\ \/ agent' = [ agent EXCEPT !.phase = "validate" ]
     \/ agent' = [ agent EXCEPT !.phase = "done", !.success = << FALSE >> ]
  /\ UNCHANGED agentUnchanged

\* workerJob.waitUntilFinished settles: with the test runner's result, whose
\* success is true, false or missing, or with a rejection
TestRunnerFinishes ==
  /\ agent.phase = "validate"
  /\ \/ \E success \in CapValues :
          agent' = [ agent EXCEPT !.phase = "gate", !.finished = TRUE,
                                  !.testsPassed = success = << TRUE >> ]
     \/ agent' = [ agent EXCEPT !.phase = "done", !.finished = TRUE,
                                !.success = << FALSE >> ]
  /\ UNCHANGED agentUnchanged

\* if (needsCompliance && !testsPassed) throw
ComplianceGate ==
  /\ agent.phase = "gate"
  /\ agent' = IF needsCompliance(agent.lane, agent.caps) /\ ~agent.testsPassed
              THEN [ agent EXCEPT !.phase = "done", !.success = << FALSE >> ]
              ELSE [ agent EXCEPT !.phase = "release" ]
  /\ UNCHANGED agentUnchanged

\* if (octokit && canRelease) createBranchAndPR, which may throw before
\* octokit.pulls.create; then the processor returns success: true
Release ==
  /\ agent.phase = "release"
  /\ IF agent.octokit /\ canRelease(agent.testsPassed, agent.caps)
     THEN \/ agent' = [ agent EXCEPT !.phase = "done", !.prCreated = TRUE,
                                     !.success = << TRUE >> ]
          \/ agent' = [ agent EXCEPT !.phase = "done", !.success = << FALSE >> ]
     ELSE agent' = [ agent EXCEPT !.phase = "done", !.success = << TRUE >> ]
  /\ UNCHANGED agentUnchanged

\* the processor has returned its result
JobReturns ==
  /\ agent.phase = "done"
  /\ agent' = NoAgent
  /\ UNCHANGED agentUnchanged

NextAgent ==
  \/ JobReceived
  \/ SubmitTestRunner
  \/ TestRunnerFinishes
  \/ ComplianceGate
  \/ Release
  \/ JobReturns

SpecAgent == InitIdle /\ [][NextAgent]_vars

-----------------------------------------------------------------------------
(* Properties of the /rates handler *)

RECURSIVE ReturnedCount(_, _)
\* how often rate r was returned by the getRates calls that resolved
ReturnedCount(r, outcomes) ==
  IF outcomes = << >> THEN 0
  ELSE (IF Head(outcomes).ok THEN Count(r, Head(outcomes).rates) ELSE 0)
       + ReturnedCount(r, Tail(outcomes))

ReturnedRates == UNION { Range(settled[i].rates) : i \in 1..Len(settled) }

SettledKeys == { settled[i].key : i \in 1..Len(settled) }

Rejected(k) == \E i \in 1..Len(settled) : settled[i].key = k /\ ~settled[i].ok

IsSortedByCost(s) == \A i, j \in 1..Len(s) : i < j => s[i].cost <= s[j].cost

ErrorEntries(k) ==
  { i \in 1..Len(response.errors) : response.errors[i].provider = ProviderName(k) }

\* C1: whatever subset of the queried adapters rejects, the answer of the
\* fan-out is a success carrying the rates of all resolved adapters, merged and
\* sorted ascending by cost, and exactly one { provider, error } entry per
\* rejected adapter, none for the others.
C1_FanOutIsolation ==
  rqPhase = "responded" =>
    /\ response.success /\ response.status = 200
    /\ IsSortedByCost(response.rates)
    /\ \A r \in ReturnedRates \cup Range(response.rates) :
         Count(r, response.rates) = ReturnedCount(r, settled)
    /\ \A k \in ProviderKeys :
         Cardinality(ErrorEntries(k)) = IF Rejected(k) THEN 1 ELSE 0
    /\ Len(response.errors) = Cardinality({ k \in ProviderKeys : Rejected(k) })

\* three adapters queried, one rejected, the two others returned rates that
\* arrived in an order the sort had to change
C1_Witness ==
  /\ rqPhase = "responded"
  /\ Len(providersToQuery) = 3
  /\ Cardinality({ k \in ProviderKeys : Rejected(k) }) = 1
  /\ \A i \in 1..Len(settled) : settled[i].ok => settled[i].rates # << >>
  /\ allRates # response.rates
  /\ Len(response.errors) = 1

\* C2: the answer is produced only when the getRates call of every queried
\* adapter has settled, and in every completion order each rate returned by a
\* resolved adapter is in the answer exactly as often as it was returned.
C2_Barrier ==
  response.status = 200 =>
    /\ pending = { }
    /\ SettledKeys = Range(providersToQuery)
    /\ Len(settled) = Len(providersToQuery)
    /\ \A k \in Range(providersToQuery) :
         Cardinality({ i \in 1..Len(settled) : settled[i].key = k }) = 1
    /\ \A r \in ReturnedRates :
         Count(r, response.rates) = ReturnedCount(r, settled)

\* the adapter called first settled last, after the others, and its rates are
\* in the answer
C2_Witness ==
  /\ response.status = 200
  /\ Len(settled) = 3
  /\ settled[3].key = providersToQuery[1]
  /\ settled[3].ok
  /\ settled[3].rates # << >>
  /\ settled[1].ok /\ settled[1].rates # << >>

-----------------------------------------------------------------------------
(* Properties of EasyPostProvider.createLabel *)

\* POST /shipments of call c was answered with a shipment
ShipmentReturned(c) ==
  \/ calls[c].normalizedRate # << >>
  \/ calls[c].result \in { "No rate found", "No rates available" }

BothGiven(c) == Truthy(calls[c].request.carrier) /\ Truthy(calls[c].request.service)

NoRateSupplied(c) == calls[c].request.rate = << >>

BuyIds(c) == { calls[c].buys[i].rateId : i \in 1..Len(calls[c].buys) }

\* C3: one createLabel call issues at most one purchase request.
C3_AtMostOnePurchase == \A c \in slots : Len(calls[c].buys) <= 1

ExactHits(c) ==
  { i \in 1..Len(calls[c].rates) :
      /\ calls[c].rates[i].carrier = calls[c].request.carrier
      /\ calls[c].rates[i].service = calls[c].request.service }

CaseInsensitiveHits(c) ==
  { i \in 1..Len(calls[c].rates) :
      /\ toLowerCase(calls[c].rates[i].carrier) = toLowerCase(calls[c].request.carrier)
      /\ toLowerCase(calls[c].rates[i].service) = toLowerCase(calls[c].request.service) }

\* the rate selected is one of hits, only it is bought; no hit: not-found
\* error and no purchase request
SelectsAmong(c, hits) ==
  IF hits = { }
  THEN /\ calls[c].result = "No rate found"
       /\ calls[c].buys = << >>
  ELSE /\ calls[c].selected # << >>
       /\ \E i \in hits : calls[c].selected[1] = calls[c].rates[i]
       /\ BuyIds(c) \subseteq { calls[c].selected[1].id }

\* C4 as stated: with no supplied rate and carrier and service given, the rate
\* bought is a returned rate whose (carrier, service) equals the requested
\* pair, and when no returned rate has that pair the call fails with the
\* not-found error without a purchase request.
C4_ExactPairOrNotFound ==
  \A c \in slots :
    (ShipmentReturned(c) /\ NoRateSupplied(c) /\ BothGiven(c))
      => SelectsAmong(c, ExactHits(c))

\* C4 amended: the same with the pairs compared ignoring letter case, the
\* first such rate in the returned order being the one selected.
C4_CaseInsensitivePairOrNotFound ==
  \A c \in slots :
    (ShipmentReturned(c) /\ NoRateSupplied(c) /\ BothGiven(c))
      => /\ SelectsAmong(c, CaseInsensitiveHits(c))
         /\ CaseInsensitiveHits(c) # { } =>
              \A i \in CaseInsensitiveHits(c) :
                \E j \in CaseInsensitiveHits(c) :
                  j <= i /\ calls[c].selected[1] = calls[c].rates[j]

\* the pair matched a dearer rate while a cheaper one was on offer, and the
\* dearer one was bought
C4_Witness ==
  \E c \in slots :
    /\ calls[c].result = "label"
    /\ NoRateSupplied(c) /\ BothGiven(c)
    /\ calls[c].selected[1].id = "rate_1"
    /\ \E i \in 1..Len(calls[c].rates) : calls[c].rates[i].id = "rate_2"
    /\ BuyIds(c) = { "rate_1" }

IsCheapest(r, rates) ==
  /\ r \in Range(rates)
  /\ \A i \in 1..Len(rates) : parseFloat(r.rate) <= parseFloat(rates[i].rate)

\* the selection order shared by the stated and the amended C5
SelectionOrder(c) ==
  /\ ~NoRateSupplied(c) =>
       /\ calls[c].selected = << >>
       /\ BuyIds(c) \subseteq { calls[c].request.rate[1].id }
       /\ calls[c].buys # << >> => calls[c].request.rate[1].id # Undef
  /\ (NoRateSupplied(c) /\ BothGiven(c)) => SelectsAmong(c, CaseInsensitiveHits(c))
  /\ (NoRateSupplied(c) /\ ~BothGiven(c) /\ calls[c].rates # << >>) =>
       /\ calls[c].selected # << >>
       /\ IsCheapest(calls[c].selected[1], calls[c].rates)
       /\ BuyIds(c) \subseteq { calls[c].selected[1].id }

\* C5 as stated: supplied rate first, else the (carrier, service) match, else
\* the cheapest; and with no supplied rate and an empty rate list the call
\* fails with the no-rates-available error and no purchase request.
C5_SelectionOrderAsStated ==
  \A c \in slots :
    ShipmentReturned(c) =>
      /\ SelectionOrder(c)
      /\ (NoRateSupplied(c) /\ calls[c].rates = << >>) =>
           /\ calls[c].result = "No rates available"
           /\ calls[c].buys = << >>

\* C5 amended: the no-rates-available error is the outcome of an empty rate
\* list when carrier and service are not both given; when both are given the
\* empty list yields the not-found error.  No purchase request either way.
C5_SelectionOrder ==
  \A c \in slots :
    ShipmentReturned(c) =>
      /\ SelectionOrder(c)
      /\ (NoRateSupplied(c) /\ calls[c].rates = << >>) =>
           /\ calls[c].result = IF BothGiven(c) THEN "No rate found"
                                ELSE "No rates available"
           /\ calls[c].buys = << >>

\* no supplied rate, only a carrier given, the cheapest rate returned second:
\* it is the one bought
C5_Witness ==
  \E c \in slots :
    /\ calls[c].result = "label"
    /\ NoRateSupplied(c) /\ ~BothGiven(c) /\ Truthy(calls[c].request.carrier)
    /\ Len(calls[c].rates) >= 2
    /\ calls[c].rates[2].id = "rate_2"
    /\ BuyIds(c) = { "rate_2" }

\* C7: without a configured id and in calls that do not overlap, a call that
\* needs an End Shipper and starts after a creation succeeded issues no
\* creation request and purchases with the cached id; at most one identity
\* is ever created.
C7_EndShipperCachedOnce ==
  (~overlapped /\ config.endShipperId = 0) =>
    /\ remoteEndShippers <= 1
    /\ \A c \in slots :
         (calls[c].cacheAtStart # 0 /\ calls[c].needsEndShipper) =>
           /\ calls[c].esRequests = 0
           /\ endShipperCache = calls[c].cacheAtStart
           /\ \A i \in 1..Len(calls[c].buys) :
                calls[c].buys[i].endShipperId = calls[c].cacheAtStart

\* a later call bought its label with the id an earlier call had created
C7_Witness ==
  \E c \in slots :
    /\ ~overlapped
    /\ config.endShipperId = 0
    /\ calls[c].cacheAtStart # 0
    /\ calls[c].needsEndShipper
    /\ calls[c].result = "label"
    /\ calls[c].buys # << >>
    /\ calls[c].buys[1].endShipperId = calls[c].cacheAtStart

OriginUnnamed(c) ==
  ~Truthy(calls[c].request.origin.name) /\ ~Truthy(calls[c].request.origin.company)

\* C8: an End Shipper being required with none configured or cached, an
\* origin without name and company makes the call fail without a creation
\* request and without a purchase request; and a creation that yields no id
\* makes the call fail without a purchase request.
C8_EndShipperFailureAborts ==
  \A c \in slots :
    /\ ( /\ calls[c].needsEndShipper
         /\ config.endShipperId = 0
         /\ calls[c].cacheAtStart = 0
         /\ OriginUnnamed(c) )
         => /\ calls[c].pc = "done"
            /\ calls[c].result = "EndShipper origin missing"
            /\ calls[c].esRequests = 0
            /\ calls[c].buys = << >>
    /\ calls[c].esFailed
         => /\ calls[c].pc = "done"
            /\ calls[c].result \in { "Failed to create EasyPost EndShipper",
                                     "EasyPost API error" }
            /\ calls[c].buys = << >>

\* a call that needed an End Shipper failed on the unnamed origin
C8_Witness ==
  \E c \in slots :
    /\ calls[c].needsEndShipper
    /\ OriginUnnamed(c)
    /\ calls[c].result = "EndShipper origin missing"
    /\ calls[c].esRequests = 0

\* C9: a call that reaches the End Shipper step while nothing is cached or
\* configured issues its own creation request, also while the creation
\* request of another call is still awaiting its answer.
C9_NoDeduplication ==
  [][ \A c \in slots :
        ( /\ calls[c].pc = "createShipment"
          /\ calls'[c].normalizedRate # << >>
          /\ calls'[c].needsEndShipper
          /\ config.endShipperId = 0
          /\ endShipperCache = 0
          /\ ~OriginUnnamed(c) )
          => /\ calls'[c].pc \in { "esSdk", "esRest" }
             /\ calls'[c].esRequests = 1 ]_vars

\* two calls in flight together each created a remote identity
C9_Witness ==
  /\ overlapped
  /\ remoteEndShippers >= 2
  /\ \A c \in slots :
       /\ calls[c].cacheAtStart = 0
       /\ calls[c].esRequests >= 1
       /\ calls[c].endShipperId # 0
  /\ calls[1].endShipperId # calls[2].endShipperId

-----------------------------------------------------------------------------
(* Properties of the adapters *)

\* C6: a createLabel call that succeeds returns a Label whose rate is the
\* rate that was purchased: a defined rate carrying the id that was bought.
C6_LabelCarriesPurchasedRate ==
  (adapterCall.op = "createLabel" /\ adapterCall.outcome = "ok") =>
    /\ Len(adapterCall.label) = 1
    /\ adapterCall.label[1].rate # << >>
    /\ adapterCall.label[1].rate[1].id = adapterCall.label[1].purchased

\* C10: getRates and createLabel of the Easyship adapter, given a request that
\* violates an address, parcel or customs rule, fail with the validation error
\* and have issued no network request.
C10_ValidationBeforeNetwork ==
  ( /\ adapterCall.adapter = "easyship"
    /\ adapterCall.op \in { "getRates", "createLabel" }
    /\ validateRequest(adapterCall.request[1]) # << >> )
    => /\ adapterCall.outcome = "EasyshipValidationError"
       /\ adapterCall.network = << >>

-----------------------------------------------------------------------------
(* Properties of the HS code check *)

HsErrors == { i \in 1..Len(hsCheck.errors) : hsCheck.errors[i].field = "customs.items.hsCode" }

HsAccepted == HsErrors = { }

HsChecked(code) == hsCheck # NoHsCheck /\ hsCheck.item[1].hsCode = << code >>

\* 4 to 10 decimal digits once the dots are taken out
FourToTenDigits(code) ==
  /\ \A i \in 1..Len(code) : code[i] \in Digits \cup { "." }
  /\ Cardinality({ i \in 1..Len(code) : code[i] \in Digits }) \in 4..10

\* C20: customs validation accepts an item's HS code exactly when the code, with
\* every dot removed, is 4 to 10 decimal digits; "610910" and "6109.10" are
\* accepted, "12", "abcde" and "" are rejected with an error for that item.
C20_HsCodeAcceptance ==
  hsCheck # NoHsCheck =>
    /\ HsAccepted <=> ( /\ hsCheck.item[1].hsCode # << >>
                        /\ FourToTenDigits(hsCheck.item[1].hsCode[1]) )
    /\ ~HsAccepted => \A i \in HsErrors : hsCheck.errors[i].index = 0
    /\ (HsChecked(Chars610910) \/ HsChecked(Chars6109dot10)) => HsAccepted
    /\ (HsChecked(Chars12) \/ HsChecked(CharsAbcde) \/ HsChecked(<< >>)) => ~HsAccepted

C20_Witness == HsChecked(Chars6109dot10) /\ hsCheck.errors = << >>

-----------------------------------------------------------------------------
(* Properties of the Easyship request validation and incoterm resolution *)

Broken(cond, field, index, rule) ==
  IF cond THEN { Violation(field, index, rule) } ELSE { }

AddressRulesBroken(addr, prefix) ==
  Broken(Missing(addr.name), prefix, 0, "name is required")
  \cup Broken(Missing(addr.street1), prefix, 0, "street1 is required")
  \cup Broken(Missing(addr.city), prefix, 0, "city is required")
  \cup Broken(Missing(addr.country), prefix, 0, "country is required")
  \cup Broken(~Missing(addr.country) /\ toUpperCase(addr.country) \notin VALID_COUNTRY_CODES,
              prefix, 0, "country is not a valid code")
  \cup Broken(Missing(addr.zip) /\ toUpperCase(addr.country) \notin { "HK", "AE", "SA" },
              prefix, 0, "zip is required")
  \cup Broken(Truthy(addr.phone) /\ ~PhonePattern(addr.phone),
              prefix, 0, "phone format is invalid")
  \cup Broken(Truthy(addr.email) /\ ~EmailPattern(addr.email),
              prefix, 0, "email format is invalid")

ParcelRulesBroken(parcel) ==
  UNION { Broken(parcel[f] <= 0, "parcel." \o f, 0, "must be greater than 0")
          \cup Broken(parcel[f] > (IF f = "weight" THEN 150 ELSE 108),
                      "parcel." \o f, 0, "exceeds maximum")
          : f \in { "weight", "length", "width", "height" } }

ValidHs(item) == item.hsCode # << >> /\ FourToTenDigits(item.hsCode[1])

ItemRulesBroken(item, i) ==
  Broken(Missing(item.description), "customs.items.description", i, "is required")
  \cup Broken(~Missing(item.description) /\ item.descriptionLength > 256,
              "customs.items.description", i, "exceeds 256 characters")
  \cup Broken(item.quantity <= 0, "customs.items.quantity", i, "must be greater than 0")
  \cup Broken(item.value < 0, "customs.items.value", i, "must be 0 or greater")
  \cup Broken(item.hsCode = << >> \/ \A k \in 1..Len(item.hsCode[1]) : item.hsCode[1][k] = " ",
              "customs.items.hsCode", i, "is required")
  \cup Broken(item.hsCode # << >> /\ (\E k \in 1..Len(item.hsCode[1]) : item.hsCode[1][k] # " ")
                /\ ~ValidHs(item),
              "customs.items.hsCode", i, "format is invalid")
  \cup Broken(Missing(item.originCountry), "customs.items.originCountry", i, "is required")

CustomsRulesBroken(request) ==
  IF request.origin.country = request.destination.country \/ request.customs = << >>
  THEN { }
  ELSE IF request.customs[1].items = << >>
       THEN { Violation("customs.items", 0, "is required for international shipments") }
       ELSE UNION { ItemRulesBroken(request.customs[1].items[i], i - 1)
                    : i \in 1..Len(request.customs[1].items) }

RulesBroken(request) ==
  AddressRulesBroken(request.origin, "origin")
  \cup AddressRulesBroken(request.destination, "destination")
  \cup ParcelRulesBroken(request.parcel)
  \cup CustomsRulesBroken(request)

EasyshipRatesCall == adapterCall.adapter = "easyship" /\ adapterCall.op = "getRates"

C12_NoInvalidHsReachesProvider ==
  ( /\ adapterCall.op = "getRates"
    /\ adapterCall.request[1].customs # << >>
    /\ \E i \in 1..Len(adapterCall.request[1].customs[1].items) :
         ~ValidHs(adapterCall.request[1].customs[1].items[i]) )
    => adapterCall.network = << >>

RestrictedList ==
  IF easyshipConfig.ddpRestricted = << >> THEN DEFAULT_DDP_RESTRICTED
  ELSE easyshipConfig.ddpRestricted[1]

ConfiguredDefault ==
  IF easyshipConfig.incotermDefault \in { "DDP", "DDU" }
  THEN easyshipConfig.incotermDefault ELSE "DDP"

EasyshipSent ==
  /\ adapterCall.adapter = "easyship"
  /\ adapterCall.op \in { "getRates", "createLabel" }
  /\ adapterCall.network # << >>

\* C19: the incoterm sent by getRates and by createLabel is DDU when the
\* destination country, upper-cased, is in the restricted list, whatever the
\* configured default, and the configured default (DDP when none) otherwise.
C19_IncotermResolution ==
  EasyshipSent =>
    adapterCall.incoterms =
      IF toUpperCase(adapterCall.request[1].destination.country) \in RestrictedList
      THEN "DDU" ELSE ConfiguredDefault

C19_Witness ==
  /\ EasyshipSent
  /\ adapterCall.op = "createLabel"
  /\ adapterCall.request[1].destination.country = "hk"
  /\ easyshipConfig = [ incotermDefault |-> "DDP", ddpRestricted |-> << { "HK" } >> ]
  /\ adapterCall.incoterms = "DDU"

-----------------------------------------------------------------------------
(* Properties of retryWithBackoff *)

AttemptsMade == Len(retry.raised) + Len(retry.result)

RetryRunning == retry.phase # "idle" /\ retry.maxRetries >= 1

\* C13: with budget n >= 1 and base delay d the attempts run one at a time; after
\* the failed attempt k (0-based, k < n-1) the wait is d * 2^k; the first success
\* returns that attempt's value and ends the call; never more than n attempts and
\* no wait after the last failed attempt.
C13_BackoffSchedule ==
  RetryRunning =>
    /\ AttemptsMade <= retry.maxRetries
    /\ Len(retry.waits) = IF Len(retry.raised) < retry.maxRetries
                          THEN Len(retry.raised) ELSE retry.maxRetries - 1
    /\ \A k \in 0..(Len(retry.waits) - 1) : retry.waits[k + 1] = retry.baseDelay * 2 ^ k
    /\ retry.phase = "attempting" => AttemptsMade = retry.attempt
    /\ retry.phase = "returned" =>
         /\ retry.result = << [ kind |-> "value", id |-> Len(retry.raised) ] >>
         /\ retry.thrown = << >>
    /\ retry.phase = "threw" => retry.result = << >> /\ Len(retry.raised) = retry.maxRetries

C13_Witness ==
  /\ retry.phase = "returned"
  /\ retry.baseDelay = 1000
  /\ Len(retry.raised) = 3
  /\ retry.waits = << 1000, 2000, 4000 >>
  /\ retry.result[1].id = 3

\* C14: when every attempt of the budget fails, the call raises exactly the value
\* the final attempt raised, whatever kind of value it is, and raises nothing
\* before the budget is exhausted.
C14_RaisesFinalValueUnchanged ==
  RetryRunning =>
    /\ retry.phase = "threw" =>
         /\ Len(retry.raised) = retry.maxRetries
         /\ retry.thrown = << retry.raised[Len(retry.raised)] >>
    /\ Len(retry.raised) < retry.maxRetries => retry.thrown = << >>

-----------------------------------------------------------------------------
(* Properties of the shipper-defaults decorator *)

\* the value the request origin supplies for a field, or Absent / Undef
Supplied(f) ==
  IF decorated.request[1].origin = << >> THEN Absent
  ELSE decorated.request[1].origin[1][f]

\* C15: through the decorator's getRates and createLabel, each origin field
\* handed to the wrapped adapter is the request's value when the request
\* supplies a defined one and the configured default when the field is absent or
\* undefined; a fully populated origin goes through unchanged.
C15_DefaultsFillGaps ==
  decorated.op \in { "getRates", "createLabel" } =>
    /\ \A f \in AddressFields :
         decorated.inner[1].origin[1][f] =
           IF Supplied(f) \notin { Absent, Undef } THEN Supplied(f)
           ELSE decorated.defaults[1][f]
    /\ decorated.inner[1].destination = decorated.request[1].destination

-----------------------------------------------------------------------------
(* Properties of createProvidersFromEnv *)

MapKeys == { factory.map[i].key : i \in 1..Len(factory.map) }

\* the provider's required credential is set in the environment
CredentialSet(key, env) ==
  CASE key = "easypost" ->
         \/ Truthy(env.EASYPOST_API_KEY)
         \/ env.EASYPOST_MODE = "production" /\ Truthy(env.EASYPOST_PROD_API_KEY)
         \/ env.EASYPOST_MODE # "production" /\ Truthy(env.EASYPOST_TEST_API_KEY)
    [] key = "easyship" -> Truthy(env.EASYSHIP_API_KEY)
    [] OTHER -> Truthy(env.N8N_WEBHOOK_BASE_URL)

AnyShipperDefault(env) ==
  Truthy(env.SHIPPER_NAME) \/ Truthy(env.SHIPPER_STREET2) \/ Truthy(env.SHIPPER_ZIP)

\* C16: the returned map holds a provider's key exactly when its required
\* credential is set, nothing is raised for an absent credential, and when any
\* shipper default is configured every adapter in the map is wrapped in the
\* shipper-defaults decorator.
C16_MapMatchesCredentials ==
  factory # NoFactory =>
    /\ ~factory.raised
    /\ \A key \in ProviderKeys : key \in MapKeys <=> CredentialSet(key, factory.env[1])
    /\ AnyShipperDefault(factory.env[1]) =>
         \A i \in 1..Len(factory.map) : factory.map[i].wrapped

-----------------------------------------------------------------------------
(* Properties of the single-adapter handlers *)

HandlerOp ==
  CASE route.handler = "book" -> "createLabel"
    [] route.handler = "track" -> "trackShipment"
    [] OTHER -> "cancelShipment"

\* the adapter name the request selects: rate.provider in lower case for a
\* booking, the provider parameter otherwise
SelectedName ==
  IF route.handler = "book" /\ route.request[1].name # Undef
  THEN toLowerCase(route.request[1].name)
  ELSE route.request[1].name

SelectionConfigured ==
  IF Truthy(SelectedName) THEN SelectedName \in providers ELSE providers # { }

ExpectedAdapter ==
  IF Truthy(SelectedName) THEN SelectedName ELSE Head(ProviderValues(providers))

OriginResolved == route.request[1].originIn \notin { "byIdMissing", "none" }

MainCalls == { i \in 1..Len(route.invoked) : route.invoked[i].op = HandlerOp }

\* C17 as stated: each of the three handlers invokes exactly one operation on
\* exactly one adapter (the named one, else the rate's, else the first), and
\* with a name that is not configured invokes nothing and fails with
\* provider-not-found.
C17_ExactlyOneOperation ==
  route.handler # "none" =>
    IF SelectionConfigured
    THEN route.invoked = << Invocation(ExpectedAdapter, HandlerOp) >>
    ELSE route.invoked = << >> /\ route.code = "PROVIDER_NOT_FOUND"

\* C17: the three handlers only ever invoke the selected adapter; tracking and
\* cancellation invoke exactly one operation on it; a booking invokes createLabel
\* at most once, after two validateAddress calls on the same adapter when
\* validation is on and the request has a destination, and not at all when the
\* origin is unresolved or the
\* preflight fails; an unconfigured selection invokes nothing and fails with
\* provider-not-found (for a booking, once the origin is resolved).
C17_SingleAdapter ==
  route.handler # "none" =>
    /\ \A i \in 1..Len(route.invoked) :
         SelectionConfigured /\ route.invoked[i].adapter = ExpectedAdapter
    /\ Cardinality(MainCalls) <= 1
    /\ MainCalls # { } => MainCalls = { Len(route.invoked) }
    /\ (route.handler # "book" /\ SelectionConfigured) =>
         route.invoked = << Invocation(ExpectedAdapter, HandlerOp) >>
    /\ (route.handler = "book" /\ ~OriginResolved) =>
         route.invoked = << >> /\ route.code \in { "SHIP_FROM_NOT_FOUND", "ORIGIN_REQUIRED" }
    /\ (~SelectionConfigured /\ (route.handler = "book" => OriginResolved)) =>
         route.invoked = << >> /\ route.code = "PROVIDER_NOT_FOUND"
    /\ (route.handler = "book" /\ OriginResolved /\ SelectionConfigured) =>
         /\ \A i \in 1..Len(route.invoked) \ MainCalls :
              route.invoked[i].op = "validateAddress"
         /\ Len(route.invoked) - Cardinality(MainCalls)
              = IF validation.mode = "off" \/ ~preflight.destination THEN 0 ELSE 2
         /\ route.code \in { "", "BOOK_ERROR" } /\ (validation.mode = "off" \/ route.code = "")
              => MainCalls # { }
         /\ route.code = "ADDRESS_INVALID" => MainCalls = { }

C17_Witness ==
  /\ route.handler = "book"
  /\ route.request[1].name = "Easyship"
  /\ validation.mode = "remote"
  /\ route.invoked = << Invocation("easyship", "validateAddress"),
                        Invocation("easyship", "validateAddress"),
                        Invocation("easyship", "createLabel") >>
  /\ route.status = 200

-----------------------------------------------------------------------------
(* Properties of calculateDimensionalWeight *)

RoundUpCarrier(carrier) == carrier \in { "FedEx", "fedex", "UPS", "ups" }

Divisor(carrier) == IF carrier \in { "USPS", "usps" } THEN 166 ELSE 139

\* the next whole unit at or above x halves, in halves
NextWhole(x) == CHOOSE n \in x..(x + 1) : n % 2 = 0

\* the volume, in eighths, the claim prescribes for the call
ClaimedVolume(parcel, carrier) ==
  IF RoundUpCarrier(carrier)
  THEN NextWhole(parcel.length) * NextWhole(parcel.width) * NextWhole(parcel.height)
  ELSE parcel.length * parcel.width * parcel.height

\* ceil(volume / divisor): the least whole number of units not below the quotient
ClaimedDimWeight(parcel, carrier) ==
  CHOOSE w \in 0..(ClaimedVolume(parcel, carrier) \div 8 + 1) :
    /\ w * 8 * Divisor(carrier) >= ClaimedVolume(parcel, carrier)
    /\ w > 0 => (w - 1) * 8 * Divisor(carrier) < ClaimedVolume(parcel, carrier)

-----------------------------------------------------------------------------
(* Properties of trackShipment *)

\* the adapter's fixed table, and the key under which it looks a raw status up
StatusTable(adapter) ==
  CASE adapter = "easypost" -> EasyPostStatusMap
    [] adapter = "easyship" -> EasyshipStatusMap
    [] adapter = "n8n" -> N8nStatusMap

TableKey(adapter, raw) ==
  CASE adapter = "easypost" -> toLowerCase(raw)
    [] adapter = "easyship" -> raw
    [] adapter = "n8n" -> removeSeparators(toLowerCase(raw))

\* the shared status the claim assigns to a raw status
ClaimedStatus(adapter, raw) ==
  IF raw # Undef /\ TableKey(adapter, raw) \in DOMAIN StatusTable(adapter)
    THEN StatusTable(adapter)[TableKey(adapter, raw)]
    ELSE "exception"

Answered == tracked # NoTracked /\ tracked.ok

\* C21: whenever a provider answers a tracking request, the adapter returns a
\* TrackingInfo in which the shipment status and every event status is the value
\* its table gives the raw status, and "exception" for every raw status that is not
\* in the table, the empty and the missing one included; the mapping never raises.
C21_StatusMappingTotal ==
  Answered =>
    /\ tracked.result[1].outcome = "returned"
    /\ tracked.result[1].status \in TrackingStatus
    /\ tracked.result[1].status = ClaimedStatus(tracked.adapter, tracked.status)
    /\ Len(tracked.result[1].events) = Len(tracked.events)
    /\ \A i \in 1..Len(tracked.events) :
         tracked.result[1].events[i] = ClaimedStatus(tracked.adapter, tracked.events[i])


\* the EasyPost adapter was answered with a tracker that carries no status and the
\* call rejected with the TypeError of status.toLowerCase()
C21_MissingStatusRaises ==
  /\ Answered
  /\ tracked.adapter = "easypost"
  /\ tracked.status = Undef
  /\ tracked.result[1].outcome = TypeError

\* an adapter returned something that is no TrackingStatus
C21_NotAStatus ==
  /\ Answered
  /\ tracked.result[1].outcome = "returned"
  /\ tracked.result[1].status \notin TrackingStatus

-----------------------------------------------------------------------------
(* Properties of validateAddress *)

Verified == addrCheck.adapter = "easypost" /\ addrCheck.outcome = "returned"

\* the messages of the delivery errors the verification reported
ReportedErrors ==
  IF addrCheck.delivery = << >> \/ addrCheck.delivery[1].errors = << >> THEN << >>
  ELSE addrCheck.delivery[1].errors[1]

ReportedSuccess ==
  addrCheck.delivery # << >> /\ addrCheck.delivery[1].success = << TRUE >>

\* C22: EasyPost's validateAddress answers valid = false exactly when the
\* verification reported at least one delivery error, and then hands back those
\* error messages; it answers with a suggested address exactly when the
\* verification reported success.  Easyship's and n8n's validateAddress answer
\* valid = true with the original address for every input and send no request.
C22_ValidateAddress ==
  /\ Verified =>
       /\ addrCheck.result[1].valid = (Len(ReportedErrors) = 0)
       /\ Len(ReportedErrors) > 0 => addrCheck.result[1].errors = << ReportedErrors >>
       /\ (addrCheck.result[1].suggested # << >>) = ReportedSuccess
       /\ addrCheck.result[1].original = addrCheck.address[1]
  /\ addrCheck.adapter \in { "easyship", "n8n" } =>
       /\ addrCheck.outcome = "returned"
       /\ addrCheck.result[1].valid
       /\ addrCheck.result[1].original = addrCheck.address[1]
       /\ addrCheck.requests = 0

\* a verification that reported success together with a delivery error
C22_Witness ==
  /\ Verified
  /\ ReportedSuccess
  /\ Len(ReportedErrors) = 2
  /\ ~addrCheck.result[1].valid
  /\ addrCheck.result[1].suggested # << >>

-----------------------------------------------------------------------------
(* Properties of the Easyship units of the env package *)

EnvRead == envUnits # NoEnvUnits

\* the value read for a unit follows the order new, legacy, default, where
\* hasNew and hasLegacy say whether the new and the legacy variable count
UnitFollows(hasNew, hasLegacy, unit, new, legacy) ==
  /\ hasNew => unit = new
  /\ (~hasNew /\ hasLegacy) => unit = legacy
  /\ (~hasNew /\ ~hasLegacy) => (unit # Undef /\ unit # "")

IsSet(v) == v # Undef

WeightFollows(hasNew, hasLegacy) ==
  UnitFollows(hasNew, hasLegacy, envUnits.weightUnit,
              envUnits.env[1].EASYSHIP_WEIGHT_UNIT, envUnits.env[1].EASYSHIP_UNITS_WEIGHT)

DimensionFollows(hasNew, hasLegacy) ==
  UnitFollows(hasNew, hasLegacy, envUnits.dimensionUnit,
              envUnits.env[1].EASYSHIP_DIMENSION_UNIT,
              envUnits.env[1].EASYSHIP_UNITS_DIMENSIONS)

\* C23 as stated: the accessor yields the new variable's value whenever that
\* variable is set, else the legacy variable's value when that one is set, else a
\* defined default.
C23_NewLegacyDefault ==
  EnvRead =>
    /\ envUnits.loaded
    /\ WeightFollows(IsSet(envUnits.env[1].EASYSHIP_WEIGHT_UNIT),
                     IsSet(envUnits.env[1].EASYSHIP_UNITS_WEIGHT))
    /\ DimensionFollows(IsSet(envUnits.env[1].EASYSHIP_DIMENSION_UNIT),
                        IsSet(envUnits.env[1].EASYSHIP_UNITS_DIMENSIONS))

\* C23: once the env module has loaded, the accessor yields the new variable's
\* value whenever that variable is set to a non-empty string, else the legacy
\* variable's value when that one is non-empty, else a defined default.
C23_NonEmptyNewLegacyDefault ==
  (EnvRead /\ envUnits.loaded) =>
    /\ WeightFollows(Truthy(envUnits.env[1].EASYSHIP_WEIGHT_UNIT),
                     Truthy(envUnits.env[1].EASYSHIP_UNITS_WEIGHT))
    /\ DimensionFollows(Truthy(envUnits.env[1].EASYSHIP_DIMENSION_UNIT),
                        Truthy(envUnits.env[1].EASYSHIP_UNITS_DIMENSIONS))

\* the env module fails to load exactly when validation is strict and a unit
\* read this way is not one of the allowed units.
StrictRejectsUnknownUnit ==
  EnvRead =>
    (~envUnits.loaded <=>
       /\ envUnits.env[1].ENV_VALIDATION_STRICT = "true"
       /\ \/ easyshipUnits(envUnits.env[1]).weightUnit \notin { "kg", "lb" }
          \/ easyshipUnits(envUnits.env[1]).dimensionUnit \notin { "cm", "in" })

\* the new weight variable is set but empty and the legacy one is read instead
C23_Witness ==
  /\ EnvRead
  /\ envUnits.loaded
  /\ envUnits.env[1].EASYSHIP_WEIGHT_UNIT = ""
  /\ envUnits.env[1].EASYSHIP_UNITS_WEIGHT = "lb"
  /\ envUnits.weightUnit = "lb"
  /\ envUnits.env[1].EASYSHIP_DIMENSION_UNIT = "cm"
  /\ envUnits.env[1].EASYSHIP_UNITS_DIMENSIONS = "in"
  /\ envUnits.dimensionUnit = "cm"

-----------------------------------------------------------------------------
(* Properties of the End Shipper decision *)

\* the claim's condition on the rate the label is bought for
EndShipperRequired(c) ==
  LET rate == calls[c].normalizedRate[1]
  IN  \/ config.requireEndShipper = "true"
      \/ /\ config.requireEndShipper = "auto"
         /\ \/ includes(toLowerCase(rate.service), "usaexport")
            \/ includes(toLowerCase(rate.carrier), "pba")

\* C24: every purchase request carries an End Shipper id exactly when one is
\* required - always under requireEndShipper 'true', never under 'false', and
\* under 'auto' exactly when the rate's service contains 'usaexport' or its carrier
\* contains 'pba', ignoring case; with an endShipperId configured that id is the
\* one carried and the call issues no End Shipper creation request.
C24_EndShipperAttachedWhenRequired ==
  \A c \in slots :
    calls[c].normalizedRate # << >> =>
      /\ \A i \in 1..Len(calls[c].buys) :
           /\ (calls[c].buys[i].endShipperId # 0) = EndShipperRequired(c)
           /\ (config.endShipperId # 0 /\ EndShipperRequired(c)) =>
                calls[c].buys[i].endShipperId = config.endShipperId
      /\ config.endShipperId # 0 => calls[c].esRequests = 0

\* under 'auto' a label for a carrier named PBA was bought with the configured id
C24_Witness ==
  \E c \in slots :
    /\ config.requireEndShipper = "auto"
    /\ config.endShipperId # 0
    /\ calls[c].normalizedRate # << >>
    /\ calls[c].normalizedRate[1].carrier = "PBA"
    /\ calls[c].result = "label"
    /\ calls[c].buys # << >>
    /\ calls[c].buys[1].endShipperId = config.endShipperId

-----------------------------------------------------------------------------
(* Properties of the default restricted-country list *)

\* createProvidersFromEnv has just built the Easyship adapter from an environment
\* that does not set EASYSHIP_DDP_RESTRICTED
BuiltWithoutList ==
  /\ factory # NoFactory
  /\ "easyship" \in MapKeys
  /\ factory.env[1].EASYSHIP_DDP_RESTRICTED = Undef

\* the list an adapter constructed directly without ddpRestricted resolves against
DirectDefaultList ==
  LET direct == EasyshipProvider([ incotermDefault |-> Undef, ddpRestricted |-> << >> ])
  IN  IF direct.ddpRestricted = << >> THEN DEFAULT_DDP_RESTRICTED
      ELSE direct.ddpRestricted[1]

\* C25: the Easyship adapter that createProvidersFromEnv builds with
\* EASYSHIP_DDP_RESTRICTED unset resolves incoterms against the same restricted
\* set as an adapter constructed directly without a list: DDU for every country of
\* that set and its configured default for every other country.
C25_OneDefaultRestrictedSet ==
  BuiltWithoutList =>
    \A country \in VALID_COUNTRY_CODES \cup DirectDefaultList :
      determineIncoterm(country) =
        IF country \in DirectDefaultList THEN "DDU" ELSE ConfiguredDefault

\* the adapter built from the environment ships DDP to a country that the
\* directly constructed adapter treats as restricted
C25_FactoryListDiffers ==
  /\ BuiltWithoutList
  /\ "RU" \in DirectDefaultList
  /\ easyshipConfig.incotermDefault = "DDP"
  /\ determineIncoterm("RU") = "DDP"

-----------------------------------------------------------------------------
(* Properties of booking a rate the fan-out returned *)

\* a booking whose request.rate is a rate that getRates of a configured adapter
\* returned
BooksReturnedRate == route.handler = "book" /\ route.request[1].from # Undef

\* C26: a rate returned by the rates fan-out and sent back to the book endpoint
\* under the same providers is dispatched to the adapter that produced it: its
\* rate.provider in lower case is the map key of that adapter, so the booking is
\* never refused as provider-not-found and invokes no other adapter.
C26_RoundTripDispatch ==
  BooksReturnedRate =>
    /\ toLowerCase(route.request[1].name) = route.request[1].from
    /\ route.code # "PROVIDER_NOT_FOUND"
    /\ \A i \in 1..Len(route.invoked) : route.invoked[i].adapter = route.request[1].from

\* a rate that the n8n adapter returned was booked on the EasyPost adapter
C26_BookedElsewhere ==
  /\ BooksReturnedRate
  /\ route.request[1].from = "n8n"
  /\ route.invoked # << >>
  /\ route.invoked[Len(route.invoked)] = Invocation("easypost", "createLabel")

-----------------------------------------------------------------------------
(* Properties of the address-validation preflight *)

PreflightEnabled == preflight.handler # "none" /\ validation.mode # "off"

\* validateAddress answered for both addresses and called one of them invalid
ReportsInvalid ==
  /\ preflight.ran
  /\ ~preflight.ov[1].threw /\ ~preflight.dv[1].threw
  /\ ~preflight.ov[1].valid \/ ~preflight.dv[1].valid

NotFixable ==
  ~validation.autofix \/ ~preflight.ov[1].suggested \/ ~preflight.dv[1].suggested

\* getRates (for /rates) or createLabel (for /book) was called on some adapter
ProviderReached ==
  IF preflight.handler = "rates"
  THEN rqPhase \in { "fanout", "responded" } /\ providersToQuery # << >>
  ELSE \E i \in 1..Len(route.invoked) : route.invoked[i].op = "createLabel"

AnsweredAddressInvalid ==
  IF preflight.handler = "rates"
  THEN response.status = 400 /\ response.code = "ADDRESS_INVALID"
  ELSE route.status = 400 /\ route.code = "ADDRESS_INVALID"

\* both addresses passed validation, or both were replaced by the suggested ones
PassedOrReplaced ==
  /\ preflight.ran
  /\ ~preflight.ov[1].threw /\ ~preflight.dv[1].threw
  /\ \/ preflight.ov[1].valid /\ preflight.dv[1].valid
     \/ /\ preflight.verdict = "replaced"
        /\ preflight.ov[1].suggested /\ preflight.dv[1].suggested

\* C27 as stated: with the preflight enabled, an invalid origin or destination
\* that is not auto-fixed is answered 400 ADDRESS_INVALID without any getRates or
\* createLabel call, and getRates / createLabel is reached only after both
\* addresses passed validation or were both replaced by the suggested ones.
C27_PreflightGate ==
  PreflightEnabled =>
    /\ (ReportsInvalid /\ NotFixable) => (AnsweredAddressInvalid /\ ~ProviderReached)
    /\ ProviderReached => PassedOrReplaced

\* C27: the same for requests that carry a destination; a request without a
\* destination is not validated at all.
C27_PreflightGateWithDestination ==
  PreflightEnabled =>
    /\ (ReportsInvalid /\ NotFixable) => (AnsweredAddressInvalid /\ ~ProviderReached)
    /\ (ProviderReached /\ preflight.destination) => PassedOrReplaced
    /\ ~preflight.destination => ~preflight.ran

\* a booking whose invalid origin was replaced by the suggestion reached createLabel
C27_Witness ==
  /\ PreflightEnabled
  /\ preflight.handler = "book"
  /\ preflight.ran
  /\ ~preflight.ov[1].valid
  /\ preflight.verdict = "replaced"
  /\ ProviderReached

\* a /rates request was refused for an invalid destination
C27_RatesRefused ==
  /\ PreflightEnabled
  /\ preflight.handler = "rates"
  /\ ReportsInvalid
  /\ NotFixable
  /\ AnsweredAddressInvalid

-----------------------------------------------------------------------------
(* Properties of the ship-from addresses *)

DefaultsOf(userId) == { r \in shipFrom.rows : r.userId = userId /\ r.isDefault }

\* a call that returned the row it made the default
MadeDefault(s) ==
  /\ repoOps[s].pc = "done"
  /\ repoOps[s].result = "row"
  /\ \/ repoOps[s].op = "setDefault"
     \/ repoOps[s].op \in { "create", "update" } /\ repoOps[s].isDefault = << TRUE >>

\* C28: with calls that do not overlap, every user has at most one default
\* address, and after a successful setDefault(id), or create or update with
\* isDefault = true, that address is the only default of its user.
C28_OneDefaultSequential ==
  /\ \A userId \in Users : Cardinality(DefaultsOf(userId)) <= 1
  /\ \A s \in DOMAIN repoOps :
       MadeDefault(s) =>
         \E r \in RowsById(repoOps[s].id) : DefaultsOf(r.userId) = { r }

\* a second address of the seeded user became the default in place of the first
C28_Witness ==
  \E s \in DOMAIN repoOps :
    /\ MadeDefault(s)
    /\ repoOps[s].op = "setDefault"
    /\ repoOps[s].id = 2
    /\ \E r \in shipFrom.rows : r.id = 1 /\ r.userId = "u1" /\ ~r.isDefault
    /\ \E r \in shipFrom.rows : r.id = 2 /\ r.userId = "u1" /\ r.isDefault

\* C29: at most one default address per user also while two default-setting calls
\* for the same user interleave their unset-all-defaults and set-default steps.
C29_OneDefaultConcurrent ==
  \A userId \in Users :
    \A r1, r2 \in DefaultsOf(userId) : r1.id = r2.id

\* two addresses of one user are the default at once
C29_TwoDefaults ==
  \E r1, r2 \in shipFrom.rows :
    r1.id # r2.id /\ r1.userId = r2.userId /\ r1.isDefault /\ r2.isDefault

-----------------------------------------------------------------------------
(* Properties of the agent manager *)

\* C30: a pull request is created only after the test-runner job has finished and
\* only when its tests passed or caps.override is true; a job in lane p0 or with
\* caps.security = true whose tests did not pass gets no pull request, whatever
\* caps.override says, and ends with success = false.
C30_ReleaseGate ==
  /\ agent.prCreated =>
       /\ agent.finished
       /\ agent.testsPassed \/ agent.caps.override = << TRUE >>
  /\ ( /\ agent.phase # "idle"
       /\ agent.lane = "p0" \/ agent.caps.security = << TRUE >>
       /\ ~agent.testsPassed ) =>
       /\ ~agent.prCreated
       /\ agent.phase = "done" => agent.success = << FALSE >>

\* a security job with override whose tests failed ended without a pull request
C30_Witness ==
  /\ agent.phase = "done"
  /\ agent.lane = "p1"
  /\ agent.caps = [ security |-> << TRUE >>, override |-> << TRUE >> ]
  /\ agent.octokit
  /\ agent.finished
  /\ ~agent.testsPassed
  /\ ~agent.prCreated
  /\ agent.success = << FALSE >>

====
